---- MODULE Spec2Model ----
(***************************************************************************)
(* Natural-language query engine of rss-news-ai (src/src/query_engine.py)  *)
(* with the parts of src/src/history_db.py and src/src/utils.py it calls.  *)
(*                                                                         *)
(* SQL text is a sequence of one-character strings, so that upper(),       *)
(* strip(), startswith() and the regular expressions of validate_sql are   *)
(* computed character by character.                                       *)
(***************************************************************************)
EXTENDS Integers, Sequences, FiniteSets, TLC

VARIABLES
    sql,        \* the SQL text handed to validate_sql / execute_safe_sql
    nfrags,     \* number of fragments the text was assembled from
    kwUsed,     \* whether an upper-case denylist keyword fragment is in the text
    pc,         \* "input" | "validated" | "executed" | "raised" | "idle" | "answered"
    ret,        \* the (bool, value) pair returned by the SQL primitive called
    store,      \* the persisted rows (summaries, topics, articles, llm_usage)
    connLog,    \* modes of the connections get_db_connection was asked for
    openConns,  \* connections opened and not closed when the call returned
    theLlm,     \* what the LLM collaborator did in the invocation
    theEnv,     \* what the store and the storage engine did in the invocation
    answer,     \* [exc, val]: what classify_and_execute raised or returned
    trace,      \* the steps the invocation ran, in order
    queries,    \* number of invocations of classify_and_execute so far
    calls       \* the calls of topic_search made so far, each with its result

vars == <<sql, nfrags, kwUsed, pc, ret, store, connLog, openConns,
          theLlm, theEnv, answer, trace, queries, calls>>

engineVars == <<theLlm, theEnv, answer, trace, queries>>

(***************************************************************************)
(* Bounds of the model.                                                    *)
(***************************************************************************)
MaxFrags == 3

MaxQueries == 2

\* Calls of topic_search in one behaviour of SpecSearch
MaxSearches == 2

\* Rows in one trends data list handed to the formatter on its own.
MaxRows == 7

(***************************************************************************)
(* Characters and Python string primitives.                                *)
(***************************************************************************)
\* The characters of the string literals the model uses.
Chars ==
       ("INSERT" :> <<"I","N","S","E","R","T">>) @@
       ("UPDATE" :> <<"U","P","D","A","T","E">>) @@
       ("DELETE" :> <<"D","E","L","E","T","E">>) @@
       ("DROP" :> <<"D","R","O","P">>) @@
       ("ALTER" :> <<"A","L","T","E","R">>) @@
       ("CREATE" :> <<"C","R","E","A","T","E">>) @@
       ("TRUNCATE" :> <<"T","R","U","N","C","A","T","E">>) @@
       ("REPLACE" :> <<"R","E","P","L","A","C","E">>) @@
       ("GRANT" :> <<"G","R","A","N","T">>) @@
       ("REVOKE" :> <<"R","E","V","O","K","E">>) @@
       ("ATTACH" :> <<"A","T","T","A","C","H">>) @@
       ("DETACH" :> <<"D","E","T","A","C","H">>) @@
       ("VACUUM" :> <<"V","A","C","U","U","M">>) @@
       ("REINDEX" :> <<"R","E","I","N","D","E","X">>) @@
       ("PRAGMA" :> <<"P","R","A","G","M","A">>) @@
       ("BEGIN" :> <<"B","E","G","I","N">>) @@
       ("COMMIT" :> <<"C","O","M","M","I","T">>) @@
       ("ROLLBACK" :> <<"R","O","L","L","B","A","C","K">>) @@
       ("SAVEPOINT" :> <<"S","A","V","E","P","O","I","N","T">>) @@
       ("RELEASE" :> <<"R","E","L","E","A","S","E">>) @@
       ("SELECT" :> <<"S","E","L","E","C","T">>) @@
       ("SELECT " :> <<"S","E","L","E","C","T"," ">>) @@
       ("select " :> <<"s","e","l","e","c","t"," ">>) @@
       ("WITH" :> <<"W","I","T","H">>) @@
       (" " :> <<" ">>) @@
       (";" :> <<";">>) @@
       ("--" :> <<"-","-">>) @@
       ("/*" :> <<"/","*">>) @@
       ("'/*'" :> <<"'","/","*","'">>) @@
       ("x" :> <<"x">>) @@
       ("dRoP" :> <<"d","R","o","P">>) @@
       ("ai" :> <<"a","i">>) @@
       ("OpenAI" :> <<"O","p","e","n","A","I">>) @@
       ("zzz" :> <<"z","z","z">>) @@
       ("openai" :> <<"o","p","e","n","a","i">>) @@
       ("OPENAI" :> <<"O","P","E","N","A","I">>) @@
       ("open_i" :> <<"o","p","e","n","_","i">>) @@
       ("openai developments" :>
            <<"o","p","e","n","a","i"," ","d","e","v","e","l","o","p","m","e","n","t","s">>) @@
       ("google ai" :> <<"g","o","o","g","l","e"," ","a","i">>) @@
       ("anthropic news" :> <<"a","n","t","h","r","o","p","i","c"," ","n","e","w","s">>)

upperTable ==
    ("a" :> "A") @@ ("b" :> "B") @@ ("c" :> "C") @@ ("d" :> "D") @@
    ("e" :> "E") @@ ("f" :> "F") @@ ("g" :> "G") @@ ("h" :> "H") @@
    ("i" :> "I") @@ ("j" :> "J") @@ ("k" :> "K") @@ ("l" :> "L") @@
    ("m" :> "M") @@ ("n" :> "N") @@ ("o" :> "O") @@ ("p" :> "P") @@
    ("q" :> "Q") @@ ("r" :> "R") @@ ("s" :> "S") @@ ("t" :> "T") @@
    ("u" :> "U") @@ ("v" :> "V") @@ ("w" :> "W") @@ ("x" :> "X") @@
    ("y" :> "Y") @@ ("z" :> "Z")

\* str.lower(), character by character
LowerChar(c) ==
    IF \E l \in DOMAIN upperTable : upperTable[l] = c
    THEN CHOOSE l \in DOMAIN upperTable : upperTable[l] = c
    ELSE c

Lower(s) == [i \in 1..Len(s) |-> LowerChar(s[i])]

\* str.strip() and the regular expression class \s
IsSpace(c) == c \in {" ", "\t", "\n", "\r", "\f"}

\* the regular expression class \w
IsWordChar(c) ==
    c \in (DOMAIN upperTable) \cup {upperTable[l] : l \in DOMAIN upperTable}
            \cup {"0","1","2","3","4","5","6","7","8","9"} \cup {"_"}

\* str.upper(), character by character
UpperChar(c) == IF c \in DOMAIN upperTable THEN upperTable[c] ELSE c

Upper(s) == [i \in 1..Len(s) |-> UpperChar(s[i])]

\* str.strip(): drop the leading and the trailing whitespace
LStrip(s) ==
    IF \A i \in 1..Len(s) : IsSpace(s[i]) THEN <<>>
    ELSE LET k == CHOOSE i \in 1..Len(s) :
                     ~IsSpace(s[i]) /\ \A j \in 1..(i-1) : IsSpace(s[j])
         IN SubSeq(s, k, Len(s))

RStrip(s) ==
    IF \A i \in 1..Len(s) : IsSpace(s[i]) THEN <<>>
    ELSE LET k == CHOOSE i \in 1..Len(s) :
                     ~IsSpace(s[i]) /\ \A j \in (i+1)..Len(s) : IsSpace(s[j])
         IN SubSeq(s, 1, k)

Strip(s) == RStrip(LStrip(s))

\* str.startswith(p)
StartsWith(s, p) == Len(s) >= Len(p) /\ SubSeq(s, 1, Len(p)) = p

\* The regular expression assertion \b between s[i] and s[i+1]
\* (i = 0: before the text, i = Len(s): after it).
WordBoundary(s, i) ==
    (i >= 1 /\ IsWordChar(s[i])) # (i < Len(s) /\ IsWordChar(s[i+1]))

\* variant of SearchWholeWord: the keyword is searched without \b
SearchWholeWord_NoBoundary(k, s) ==
    \E i \in 1..(Len(s) - Len(k) + 1) : SubSeq(s, i, i + Len(k) - 1) = k

\* re.search(r'\b' + k + r'\b', s)
SearchWholeWord(k, s) ==
    \E i \in 1..(Len(s) - Len(k) + 1) :
        /\ s[i] = k[1]
        /\ SubSeq(s, i, i + Len(k) - 1) = k
        /\ WordBoundary(s, i - 1)
        /\ WordBoundary(s, i + Len(k) - 1)

\* re.search of a literal pattern p in s
SearchLiteral(p, s) ==
    \E i \in 1..(Len(s) - Len(p) + 1) :
        s[i] = p[1] /\ SubSeq(s, i, i + Len(p) - 1) = p

\* re.search(r";\s*\w", s)
SearchSemicolonWord(s) ==
    \E i \in 1..Len(s) :
        /\ s[i] = ";"
        /\ \E j \in (i+1)..Len(s) :
              /\ IsWordChar(s[j])
              /\ \A k \in (i+1)..(j-1) : IsSpace(s[k])

(***************************************************************************)
(* SQL guardrails: validate_sql.                                           *)
(***************************************************************************)
FORBIDDEN_SQL_KEYWORDS ==
    << "INSERT", "UPDATE", "DELETE", "DROP", "ALTER", "CREATE", "TRUNCATE",
       "REPLACE", "GRANT", "REVOKE", "ATTACH", "DETACH", "VACUUM", "REINDEX",
       "PRAGMA", "BEGIN", "COMMIT", "ROLLBACK", "SAVEPOINT", "RELEASE" >>

\* The three regular expressions, in list order.
FORBIDDEN_SQL_PATTERNS == << "semicolon_word", "dash_dash", "slash_star" >>

PatternSearch(p, s) ==
    CASE p = "semicolon_word" -> SearchSemicolonWord(s)
      [] p = "dash_dash"      -> SearchLiteral(Chars["--"], s)
      [] p = "slash_star"     -> SearchLiteral(Chars["/*"], s)

\* `not sql or not sql.strip()`
IsEmptySql(s) == s = <<>> \/ Strip(s) = <<>>

\* `sql.upper().strip()`
SqlUpper(s) == Strip(Upper(s))

\* variant of StartsWithSelect: `"SELECT" in sql_upper`
StartsWithSelect_Contains(sql_upper) == SearchLiteral(Chars["SELECT"], sql_upper)

\* `sql_upper.startswith("SELECT")`
StartsWithSelect(sql_upper) == StartsWith(sql_upper, Chars["SELECT"])

\* variant of KeywordHaystack: the loop searches the text as given
KeywordHaystack_CaseSensitive(s) == s

\* the text the keyword loop searches: sql_upper
KeywordHaystack(s) == SqlUpper(s)

\* The indexes of the keywords the loop of lines 183-187 would match.
MatchingKeywords(s) ==
    LET haystack == KeywordHaystack(s)
    IN  {k \in 1..Len(FORBIDDEN_SQL_KEYWORDS) :
            SearchWholeWord(Chars[FORBIDDEN_SQL_KEYWORDS[k]], haystack)}

\* variant of PatternsTried: the first pattern is skipped
PatternsTried_SkipFirst == Tail(FORBIDDEN_SQL_PATTERNS)

\* variant of PatternsTried: only the first pattern is tried
PatternsTried_OnlyFirst == << Head(FORBIDDEN_SQL_PATTERNS) >>

\* The patterns the loop of lines 190-192 tries on the text as given.
PatternsTried == FORBIDDEN_SQL_PATTERNS

MatchesForbiddenPattern(s) ==
    \E p \in 1..Len(PatternsTried) : PatternSearch(PatternsTried[p], s)

Min(S) == CHOOSE x \in S : \A y \in S : x <= y

\* variant of validate_sql: the patterns are tried before the keywords
validate_sql_PatternsFirst(s) ==
    IF IsEmptySql(s)
    THEN [ok |-> FALSE, reason |-> "Empty SQL query"]
    ELSE IF ~StartsWithSelect(SqlUpper(s))
    THEN [ok |-> FALSE, reason |-> "Only SELECT queries are allowed"]
    ELSE LET matching == MatchingKeywords(s)
         IN  IF MatchesForbiddenPattern(s)
             THEN [ok |-> FALSE, reason |-> "Forbidden SQL pattern detected"]
             ELSE IF matching # {}
             THEN [ok |-> FALSE,
                   reason |-> "Forbidden keyword: "
                                 \o FORBIDDEN_SQL_KEYWORDS[Min(matching)]]
             ELSE [ok |-> TRUE, reason |-> ""]

validate_sql(s) ==
    IF IsEmptySql(s)
    THEN [ok |-> FALSE, reason |-> "Empty SQL query"]
    ELSE IF ~StartsWithSelect(SqlUpper(s))
    THEN [ok |-> FALSE, reason |-> "Only SELECT queries are allowed"]
    ELSE LET matching == MatchingKeywords(s)
         IN  IF matching # {}
             THEN [ok |-> FALSE,
                   reason |-> "Forbidden keyword: "
                                 \o FORBIDDEN_SQL_KEYWORDS[Min(matching)]]
             ELSE IF MatchesForbiddenPattern(s)
             THEN [ok |-> FALSE, reason |-> "Forbidden SQL pattern detected"]
             ELSE [ok |-> TRUE, reason |-> ""]

(***************************************************************************)
(* Python values, as json.loads and the handlers see them. Every value is  *)
(* a record [t, v]: t the type, v a sequence that holds the content.       *)
(***************************************************************************)
PyVal(type, text, num, chars, entries) ==
    [t |-> type, s |-> text, n |-> num, c |-> chars, v |-> entries]

PyNone == PyVal("none", "", 0, << >>, << >>)

PyBool(b) == PyVal("bool", "", IF b THEN 1 ELSE 0, << >>, << >>)

PyInt(n) == PyVal("int", "", n, << >>, << >>)

\* a str known as a whole
PyStr(s) == PyVal("str", s, 0, << >>, << >>)

\* a str known character by character (SQL text)
PyChars(c) == PyVal("chars", "", 0, c, << >>)

\* a list: its items, as entries without a key
PyList(items) ==
    PyVal("list", "", 0, << >>, [i \in 1..Len(items) |-> [k |-> "", x |-> items[i]]])

\* a dict: its <<key, value>> pairs in insertion order, as entries
PyDict(pairs) ==
    PyVal("dict", "", 0, << >>,
          [i \in 1..Len(pairs) |-> [k |-> pairs[i][1], x |-> pairs[i][2]]])

\* bool(x), as `not x` and all([...]) use it
Truthy(x) ==
    CASE x.t = "none"  -> FALSE
      [] x.t = "bool"  -> x.n = 1
      [] x.t = "int"   -> x.n # 0
      [] x.t = "str"   -> x.s # ""
      [] x.t = "chars" -> x.c # << >>
      [] OTHER         -> x.v # << >>

\* hash(x) raises TypeError for these (the `in` test on a dict needs it)
Unhashable(x) == x.t \in {"list", "dict"}

\* sqlite3 binds None, bool, int and str; anything else raises
Bindable(x) == x.t \in {"none", "bool", "int", "str", "chars"}

RECURSIVE JoinChars(_)
JoinChars(c) == IF c = << >> THEN "" ELSE Head(c) \o JoinChars(Tail(c))

\* str(x), as an f-string renders it
Str(x) ==
    CASE x.t = "none"  -> "None"
      [] x.t = "bool"  -> IF x.n = 1 THEN "True" ELSE "False"
      [] x.t = "int"   -> ToString(x.n)
      [] x.t = "str"   -> x.s
      [] x.t = "chars" -> JoinChars(x.c)
      [] x.t = "list"  -> IF x.v = << >> THEN "[]" ELSE "[...]"
      [] x.t = "dict"  -> IF x.v = << >> THEN "{}" ELSE "{...}"

\* type(x).__name__
TypeName(x) ==
    CASE x.t = "none"  -> "NoneType"
      [] x.t = "chars" -> "str"
      [] OTHER         -> x.t

\* d.get(key, default) on a dict
DictGet(d, key, default) ==
    LET hits == {i \in 1..Len(d.v) : d.v[i].k = key}
    IN  IF hits = {} THEN default ELSE d.v[Min(hits)].x

\* x.get(...): AttributeError unless x is a dict
GetAttrError(x) ==
    [type |-> "AttributeError",
     msg  |-> "'" \o TypeName(x) \o "' object has no attribute 'get'"]

(***************************************************************************)
(* The store and its connections: get_db_connection and the storage        *)
(* engine behind conn.execute.                                             *)
(***************************************************************************)
\* A store as ingestion leaves it: two summaries with their topics and
\* articles (the shape of SCHEMA_SQL), and the llm_usage row count.
PopulatedStore ==
    [summaries |-> {[id |-> 1, day |-> 1], [id |-> 2, day |-> 2]},
     topics    |-> {[id |-> 1, summary_id |-> 1, name |-> "openai developments",
                     text |-> "OpenAI shipped a new model."],
                    [id |-> 2, summary_id |-> 1, name |-> "google ai",
                     text |-> "Google released Gemini 2.0."],
                    [id |-> 3, summary_id |-> 2, name |-> "openai developments",
                     text |-> ""],
                    [id |-> 4, summary_id |-> 2, name |-> "anthropic news",
                     text |-> "Anthropic launched Claude 3."]},
     articles  |-> {[id |-> 1, topic_id |-> 1, title |-> "GPT-5 announced",
                     link |-> "https://example.com/gpt5"],
                    [id |-> 2, topic_id |-> 2, title |-> "Gemini 2.0 released",
                     link |-> "https://example.com/gemini2"],
                    [id |-> 3, topic_id |-> 3, title |-> "OpenAI and Microsoft",
                     link |-> "https://example.com/msft"],
                    [id |-> 4, topic_id |-> 4, title |-> "Claude 3 launched",
                     link |-> "https://example.com/claude3"]},
     llm_usage |-> 0]

\* What can happen inside get_db_connection: os.makedirs raises, sqlite3.connect
\* raises, the PRAGMA on the fresh connection raises, or the connection is yielded.
OpenOutcomes == {"ok", "makedirs_error", "connect_error", "pragma_error"}

NoExc == [type |-> "", msg |-> ""]

\* variant of ConnectMode: the readonly flag is ignored
ConnectMode_IgnoreReadonly(readonly) == "rw"

\* The connection mode get_db_connection asks sqlite3 for.
ConnectMode(readonly) == IF readonly THEN "ro" ELSE "rw"

\* get_db_connection up to the yield. `asked` is the log entry of the call,
\* `conn` the mode of the yielded connection ("" when the call raised),
\* `leaked` counts a connection that was opened and is not closed by the
\* finally clause, which the PRAGMA precedes.
get_db_connection(readonly, open) ==
    [asked  |-> << ConnectMode(readonly) >>,
     conn   |-> IF open = "ok" THEN ConnectMode(readonly) ELSE "",
     leaked |-> IF open = "pragma_error" THEN 1 ELSE 0,
     exc    |-> CASE open = "ok" -> NoExc
                  [] open = "makedirs_error" ->
                        [type |-> "OSError", msg |-> "Permission denied"]
                  [] open = "connect_error" ->
                        [type |-> "sqlite3.OperationalError",
                         msg |-> "unable to open database file"]
                  [] open = "pragma_error" ->
                        [type |-> "sqlite3.DatabaseError",
                         msg |-> "file is not a database"]]

\* Exception classes derived from sqlite3.Error.
IsSqliteError(type) ==
    type \in {"sqlite3.OperationalError", "sqlite3.DatabaseError",
              "sqlite3.ProgrammingError", "sqlite3.InterfaceError"}

\* What a statement is to the storage engine, whatever its text: a read that
\* yields a cursor, a statement that writes, or one the engine refuses
\* (syntax error, missing table or column).
StmtKinds == {"read", "write", "error"}

\* The effect of a statement that writes, on a writable connection.
WriteEffect(st) == [st EXCEPT !.topics = {}, !.articles = {}]

\* conn.execute(sql) on a connection of the given mode.
SqliteExecute(conn, kind, st) ==
    CASE kind = "read"  -> [exc |-> NoExc, store |-> st]
      [] kind = "error" ->
            [exc |-> [type |-> "sqlite3.OperationalError", msg |-> "no such table"],
             store |-> st]
      [] kind = "write" ->
            IF conn = "ro"
            THEN [exc |-> [type |-> "sqlite3.OperationalError",
                           msg |-> "attempt to write a readonly database"],
                  store |-> st]
            ELSE [exc |-> NoExc, store |-> WriteEffect(st)]

\* Cursors a read can yield: the column names of cursor.description and the
\* rows of fetchall().
SampleCursors ==
    { [columns |-> << "name" >>, rows |-> << >>],
      [columns |-> << "name", "n" >>, rows |-> << << PyStr("openai"), PyInt(2) >> >>],
      [columns |-> << "n", "n" >>,
       rows |-> << << PyInt(1), PyInt(2) >>, << PyInt(3), PyNone >> >>] }

\* A cursor of more rows than _format_custom_response lists, with cells
\* longer than it renders.
LongCursor ==
    [columns |-> << "id", "link" >>,
     rows |-> [i \in 1..21 |->
                 << PyInt(i), PyStr("https://example.com/articles/2024/01/gpt5") >>]]

\* dict(zip(columns, row)): an insertion-ordered mapping, as a sequence of
\* <<key, value>> pairs; a repeated key keeps its first place and its last value.
RECURSIVE DictZipFrom(_, _, _)
DictZipFrom(columns, row, i) ==
    IF i > Len(columns) \/ i > Len(row) THEN << >>
    ELSE IF \E j \in 1..(i-1) : columns[j] = columns[i]
    THEN DictZipFrom(columns, row, i + 1)
    ELSE LET last == CHOOSE j \in i..Len(columns) :
                        /\ j <= Len(row)
                        /\ columns[j] = columns[i]
                        /\ \A k \in (j+1)..Len(columns) :
                              k <= Len(row) => columns[k] # columns[i]
         IN << << columns[i], row[last] >> >> \o DictZipFrom(columns, row, i + 1)

DictZip(columns, row) == DictZipFrom(columns, row, 1)

RowsToDicts(cursor) ==
    [i \in 1..Len(cursor.rows) |-> DictZip(cursor.columns, cursor.rows[i])]

(***************************************************************************)
(* Safe query executor: execute_safe_sql.                                  *)
(***************************************************************************)
\* variant of ExecuteValidated: only `except sqlite3.Error` guards the call
ExecuteValidated_CatchesSqliteOnly(s, st, open, kind, cursor) ==
    LET c == get_db_connection(TRUE, open)
        e == SqliteExecute(c.conn, kind, st)
        exc == IF c.exc # NoExc THEN c.exc ELSE e.exc
    IN  [ret |-> IF exc = NoExc
                 THEN [ok |-> TRUE, reason |-> "", rows |-> RowsToDicts(cursor)]
                 ELSE [ok |-> FALSE, reason |-> "SQL error: " \o exc.msg,
                       rows |-> << >>],
         exc     |-> IF exc = NoExc \/ IsSqliteError(exc.type) THEN NoExc ELSE exc,
         store   |-> IF c.exc # NoExc THEN st ELSE e.store,
         connLog |-> c.asked,
         leaked  |-> c.leaked]

\* The part of execute_safe_sql inside `try`: open read-only, execute,
\* convert, close; any exception becomes (False, message).
ExecuteValidated(s, st, open, kind, cursor) ==
    LET c == get_db_connection(TRUE, open)
        e == SqliteExecute(c.conn, kind, st)
        exc == IF c.exc # NoExc THEN c.exc ELSE e.exc
    IN  [ret |-> IF exc = NoExc
                 THEN [ok |-> TRUE, reason |-> "", rows |-> RowsToDicts(cursor)]
                 ELSE IF IsSqliteError(exc.type)
                 THEN [ok |-> FALSE, reason |-> "SQL error: " \o exc.msg,
                       rows |-> << >>]
                 ELSE [ok |-> FALSE,
                       reason |-> "Query execution error: " \o exc.msg,
                       rows |-> << >>],
         exc     |-> NoExc,
         store   |-> IF c.exc # NoExc THEN st ELSE e.store,
         connLog |-> c.asked,
         leaked  |-> c.leaked]

\* variant of execute_safe_sql: the connection is opened before the text is
\* validated
execute_safe_sql_OpenFirst(s, st, open, kind, cursor) ==
    LET v == validate_sql(s)
        r == ExecuteValidated(s, st, open, kind, cursor)
    IN  IF ~v.ok
        THEN [ret |-> [ok |-> FALSE, reason |-> v.reason, rows |-> << >>],
              exc |-> NoExc,
              store |-> st, connLog |-> r.connLog, leaked |-> r.leaked]
        ELSE r

execute_safe_sql(s, st, open, kind, cursor) ==
    LET v == validate_sql(s)
    IN  IF ~v.ok
        THEN [ret |-> [ok |-> FALSE, reason |-> v.reason, rows |-> << >>],
              exc |-> NoExc,
              store |-> st, connLog |-> << >>, leaked |-> 0]
        ELSE ExecuteValidated(s, st, open, kind, cursor)

(***************************************************************************)
(* The SQL primitives called directly on assembled text.                   *)
(***************************************************************************)
\* Fragments a text is assembled from.
FragPool ==
    {"SELECT ", "select ", "WITH", " ", ";", "--", "'/*'", "x", "dRoP"}

KeywordFrags == {FORBIDDEN_SQL_KEYWORDS[k] : k \in 1..Len(FORBIDDEN_SQL_KEYWORDS)}

NoLlm == [kind |-> "none"]

NoEnv == [ctx |-> "ok", log |-> "ok", main |-> "ok", stmt |-> "read",
          kind |-> "read", cursor |-> [columns |-> << >>, rows |-> << >>],
          hashOrder |-> "asc"]

NoResult == [exc |-> NoExc, val |-> << >>]

NoRet == [ok |-> FALSE, reason |-> "", rows |-> << >>]

InitSql ==
    /\ sql = << >>
    /\ nfrags = 0
    /\ kwUsed = FALSE
    /\ pc = "input"
    /\ ret = NoRet
    /\ store = PopulatedStore
    /\ connLog = << >>
    /\ openConns = 0
    /\ theLlm = NoLlm
    /\ theEnv = NoEnv
    /\ answer = NoResult
    /\ trace = << >>
    /\ queries = 0
    /\ calls = << >>

\* The caller extends the text by one fragment.
AppendFragment ==
    /\ pc = "input"
    /\ nfrags < MaxFrags
    /\ \E f \in FragPool \cup KeywordFrags :
          /\ f \in KeywordFrags => ~kwUsed
          /\ sql' = sql \o Chars[f]
          /\ kwUsed' = (kwUsed \/ f \in KeywordFrags)
    /\ nfrags' = nfrags + 1
    /\ UNCHANGED <<pc, ret, store, connLog, openConns>>
    /\ UNCHANGED engineVars
    /\ UNCHANGED calls

\* validate_sql(sql)
CallValidateSql ==
    /\ pc = "input"
    /\ LET v == validate_sql(sql)
       IN  ret' = [ok |-> v.ok, reason |-> v.reason, rows |-> << >>]
    /\ pc' = "validated"
    /\ UNCHANGED <<sql, nfrags, kwUsed, store, connLog, openConns>>
    /\ UNCHANGED engineVars
    /\ UNCHANGED calls

\* What the store and the storage engine do during one call: the statement
\* meets the engine only on a connection that opened, and only a read yields
\* a cursor. A text the guardrail rejects reaches neither, so one environment
\* stands for all.
ExecEnvs(s) ==
    LET all == {e \in [open : OpenOutcomes, kind : StmtKinds,
                       cursor : SampleCursors \cup {NoEnv.cursor}] :
                  /\ e.open # "ok" => e.kind = NoEnv.kind
                  /\ (e.cursor \in SampleCursors)
                        <=> (e.open = "ok" /\ e.kind = "read")}
    IN  IF validate_sql(s).ok THEN all
        ELSE {[open |-> "ok", kind |-> "write", cursor |-> NoEnv.cursor]}

\* execute_safe_sql(sql, db_path)
CallExecuteSafeSql ==
    /\ pc = "input"
    /\ \E env \in ExecEnvs(sql) :
          LET r == execute_safe_sql(sql, store, env.open, env.kind, env.cursor)
          IN  /\ ret' = IF r.exc = NoExc THEN r.ret ELSE ret
              /\ pc' = IF r.exc = NoExc THEN "executed" ELSE "raised"
              /\ store' = r.store
              /\ connLog' = r.connLog
              /\ openConns' = openConns + r.leaked
              /\ theEnv' = [NoEnv EXCEPT !.main = env.open, !.kind = env.kind,
                                         !.cursor = env.cursor]
    /\ UNCHANGED <<sql, nfrags, kwUsed>>
    /\ UNCHANGED <<theLlm, answer, trace, queries>>
    /\ UNCHANGED calls

NextSql == AppendFragment \/ CallValidateSql \/ CallExecuteSafeSql

SpecSql == InitSql /\ [][NextSql]_vars

(***************************************************************************)
(* The text the LLM collaborator returns and _parse_classification.        *)
(*                                                                         *)
(* A response text is [pre, fenced, post, body]: prose before the body,    *)
(* markdown code fences around it, prose after it. The body is             *)
(* [json, val, braces]: JSON text of the value val, or text that is not    *)
(* JSON, with or without a {...} block in it. Prose holds no braces.       *)
(***************************************************************************)
JsonBody(val) == [json |-> TRUE, val |-> val, braces |-> FALSE]

TextBody(braces) == [json |-> FALSE, val |-> PyNone, braces |-> braces]

\* Whether the text of a value holds a brace: the value is or holds an object.
RECURSIVE HasObject(_)
HasObject(x) ==
    CASE x.t = "dict" -> TRUE
      [] x.t = "list" -> \E i \in 1..Len(x.v) : HasObject(x.v[i].x)
      [] OTHER        -> FALSE

\* The match of re.search(r'\{[^{}]*\}', text) in the JSON text of x: the
\* first object, in text order, with no brace between its own braces.
\* Defined for HasObject(x).
RECURSIVE FirstFlatObject(_)
FirstFlatObject(x) ==
    LET inner == {i \in 1..Len(x.v) : HasObject(x.v[i].x)}
    IN  IF x.t = "dict" /\ inner = {} THEN x
        ELSE FirstFlatObject(x.v[Min(inner)].x)

\* _parse_classification: the value parsed, None when nothing parses. The
\* three re.sub calls leave text that json.loads accepts only when the
\* response is the JSON body alone, bare or inside fences: `^` anchors the
\* opening fence at the start of the text and `$` the closing one at its end.
ParseClassification(text) ==
    IF ~text.pre /\ ~text.post /\ text.body.json
    THEN text.body.val
    ELSE \* except json.JSONDecodeError: the first {...} block, if any
         IF text.body.json /\ HasObject(text.body.val)
         THEN FirstFlatObject(text.body.val)
         ELSE PyNone   \* no block, or a block json.loads refuses

(***************************************************************************)
(* The store's read operations (history_db.py), each on its own read-only  *)
(* connection. `open` is what get_db_connection does, `stmt` whether the   *)
(* storage engine runs the statement ("read") or refuses it ("error").     *)
(* Each returns [exc, val, connLog, leaked].                               *)
(***************************************************************************)
\* The dates of the days the store's summaries were generated on.
DateText == << "2024-01-01", "2024-01-02", "2024-01-03" >>

\* SQLite's date(?) of a bound value: the day of an ISO date text, the day of
\* a Julian day number, NULL for everything else.
SqlDate(x) ==
    CASE x.t = "str" /\ (\E d \in 1..Len(DateText) : DateText[d] = x.s) ->
            [null |-> FALSE, day |-> CHOOSE d \in 1..Len(DateText) : DateText[d] = x.s]
      [] x.t \in {"int", "bool"} -> [null |-> FALSE, day |-> x.n - 2460310]
      [] OTHER        -> [null |-> TRUE, day |-> 0]

\* date(s.generated_at) BETWEEN date(?) AND date(?); a NULL bound compares
\* to nothing
DayBetween(day, start, end) ==
    LET lo == SqlDate(start)
        hi == SqlDate(end)
    IN  ~lo.null /\ ~hi.null /\ lo.day <= day /\ day <= hi.day

\* strftime(period_format, s.generated_at); 2024-01-01 is a Monday, so the
\* store's days share a week and a month.
PeriodKey(period, day) ==
    CASE period = "day"   -> DateText[day]
      [] period = "week"  -> "2024-W01"
      [] period = "month" -> "2024-01"

\* Topic names in the order SQLite compares them.
NameOrder == << "anthropic news", "google ai", "openai developments" >>

NameRank(name) == CHOOSE i \in 1..Len(NameOrder) : NameOrder[i] = name

RECURSIVE SetToSeq(_)
SetToSeq(S) ==
    IF S = {} THEN << >>
    ELSE LET x == CHOOSE y \in S : TRUE IN << x >> \o SetToSeq(S \ {x})

\* seq[:n], of a list and of a str
Take(seq, n) == SubSeq(seq, 1, IF n < Len(seq) THEN n ELSE Len(seq))

DayOf(st, topic) == (CHOOSE s \in st.summaries : s.id = topic.summary_id).day

\* The articles of a set of topics, as {title, link} rows in rowid order.
ArticleRows(st, topicIds) ==
    LET ordered == SortSeq(SetToSeq({a \in st.articles : a.topic_id \in topicIds}),
                           LAMBDA a, b : a.id < b.id)
    IN  [i \in 1..Len(ordered) |->
            [title |-> ordered[i].title, link |-> ordered[i].link]]

\* SUM(t.article_count): article_count is the number of the topic's articles
ArticleCount(st, topics) ==
    Cardinality({a \in st.articles : a.topic_id \in {tp.id : tp \in topics}})

\* One connection and one first statement: the exception that the operation's
\* `except Exception` catches, if any.
ReadFailure(c, stmt, bound) ==
    IF c.exc # NoExc THEN c.exc
    ELSE IF \E i \in 1..Len(bound) : ~Bindable(bound[i])
    THEN [type |-> "sqlite3.InterfaceError",
          msg |-> "Error binding parameter - probably unsupported type."]
    ELSE IF stmt = "error"
    THEN [type |-> "sqlite3.OperationalError", msg |-> "no such table"]
    ELSE NoExc

\* What a read operation hands back: its value and its connection's record.
ReadReturn(val, c) ==
    [exc |-> NoExc, val |-> val, connLog |-> c.asked, leaked |-> c.leaked]

\* get_date_range: MIN and MAX of date(generated_at); earliest/latest None on
\* an empty store and on any exception.
get_date_range(st, open, stmt) ==
    LET c == get_db_connection(TRUE, open)
        days == {s.day : s \in st.summaries}
    IN  ReadReturn(IF ReadFailure(c, stmt, << >>) # NoExc \/ days = {}
                   THEN [earliest |-> PyNone, latest |-> PyNone]
                   ELSE [earliest |-> PyStr(DateText[Min(days)]),
                         latest |-> PyStr(DateText[CHOOSE d \in days :
                                                      \A e \in days : e <= d])],
                   c)

\* The topics of the summaries dated within [start, end].
TopicsInRange(st, start, end) ==
    {tp \in st.topics : DayBetween(DayOf(st, tp), start, end)}

\* The topics of a (period, topic name) group among the given ones.
GroupMembers(st, p, among, g) ==
    {tp \in among : PeriodKey(p, DayOf(st, tp)) = g[1] /\ tp.name = g[2]}

\* ORDER BY period, story_count DESC; equal counts in name order
GroupBefore(st, p, among, g, h) ==
    LET mg == GroupMembers(st, p, among, g)
        mh == GroupMembers(st, p, among, h)
    IN  \/ Min({DayOf(st, tp) : tp \in mg}) < Min({DayOf(st, tp) : tp \in mh})
        \/ /\ g[1] = h[1]
           /\ \/ Cardinality(mg) > Cardinality(mh)
              \/ /\ Cardinality(mg) = Cardinality(mh)
                 /\ NameRank(g[2]) < NameRank(h[2])

\* One row of topic_counts_by_period; the sample articles are those of the
\* topic in the period, whatever the date range.
TopicCountRow(st, g, members, samePeriod) ==
    [period |-> g[1],
     topic |-> g[2],
     story_count |-> Cardinality(members),
     article_count |-> ArticleCount(st, members),
     articles |-> Take(ArticleRows(st, {tp.id : tp \in samePeriod}), 5)]

\* The rows of topic_counts_by_period: GROUP BY period, t.normalized_name
TopicCountRows(st, p, among) ==
    LET ordered ==
            SortSeq(SetToSeq({<< PeriodKey(p, DayOf(st, tp)), tp.name >> :
                                 tp \in among}),
                    LAMBDA g, h : GroupBefore(st, p, among, g, h))
    IN  [i \in 1..Len(ordered) |->
            TopicCountRow(st, ordered[i],
                          GroupMembers(st, p, among, ordered[i]),
                          GroupMembers(st, p, st.topics, ordered[i]))]

\* topic_counts_by_period: one row per (period, topic) of the summaries dated
\* within [start_date, end_date], ordered by period, then story count
\* descending; the empty list for an unknown period and on any exception.
topic_counts_by_period(start_date, end_date, period, st, open, stmt) ==
    IF Unhashable(period)
    THEN [exc |-> [type |-> "TypeError",
                   msg |-> "unhashable type: '" \o TypeName(period) \o "'"],
          val |-> << >>, connLog |-> << >>, leaked |-> 0]
    ELSE IF ~(period.t = "str" /\ period.s \in {"day", "week", "month"})
    THEN [exc |-> NoExc, val |-> << >>, connLog |-> << >>, leaked |-> 0]
    ELSE LET c == get_db_connection(TRUE, open)
         IN  ReadReturn(
                IF ReadFailure(c, stmt, << start_date, end_date >>) # NoExc
                THEN << >>
                ELSE TopicCountRows(st, period.s,
                                    TopicsInRange(st, start_date, end_date)),
                c)

\* LIMIT ?: an integer limits (a negative one does not), anything else is a
\* datatype mismatch.
SqlLimit(x) ==
    CASE x.t \in {"int", "bool"} -> [err |-> FALSE, n |-> x.n]
      [] x.t = "str" /\ x.s \in {"1", "2", "3"} ->
            [err |-> FALSE, n |-> CHOOSE k \in 1..3 : ToString(k) = x.s]
      [] OTHER        -> [err |-> TRUE, n |-> 0]

Limited(seq, lim) == IF lim.n < 0 THEN seq ELSE Take(seq, lim.n)

LimitFailure(failure, lim) ==
    IF failure # NoExc THEN failure
    ELSE IF lim.err
    THEN [type |-> "sqlite3.IntegrityError", msg |-> "datatype mismatch"]
    ELSE NoExc

\* list(a_set): the order is the hash order of the run.
ListOfSet(S, hashOrder) ==
    SortSeq(SetToSeq(S),
            LAMBDA a, b : IF hashOrder = "asc" THEN NameRank(a) < NameRank(b)
                          ELSE NameRank(a) > NameRank(b))

NamedTopics(among, n) == {tp \in among : tp.name = n}

TopTopicRow(st, n, members) ==
    [topic |-> n,
     story_count |-> Cardinality(members),
     article_count |-> ArticleCount(st, members),
     articles |-> Take(ArticleRows(st, {tp.id : tp \in members}), 3)]

\* get_top_topics of top_topics_comparison: the topics of the summaries dated
\* within [start, end], by story count descending (equal counts in name
\* order), at most `limit` of them.
get_top_topics(st, start, end, lim) ==
    LET among == TopicsInRange(st, start, end)
        ordered ==
            Limited(SortSeq(SetToSeq({tp.name : tp \in among}),
                        LAMBDA a, b :
                           \/ Cardinality(NamedTopics(among, a))
                                 > Cardinality(NamedTopics(among, b))
                           \/ /\ Cardinality(NamedTopics(among, a))
                                    = Cardinality(NamedTopics(among, b))
                              /\ NameRank(a) < NameRank(b)),
                    lim)
    IN  [i \in 1..Len(ordered) |->
            TopTopicRow(st, ordered[i], NamedTopics(among, ordered[i]))]

\* variant of ComparisonStats: every topic of period 2 counts as new
ComparisonStats_NewIsAllOfPeriod2(p1_topic_names, p2_topic_names, hashOrder) ==
    [common_topics |-> ListOfSet(p1_topic_names \cap p2_topic_names, hashOrder),
     new_in_period2 |-> ListOfSet(p2_topic_names, hashOrder),
     dropped_from_period1 |-> ListOfSet(p1_topic_names \ p2_topic_names, hashOrder)]

\* The comparison of the topic names of the two periods.
ComparisonStats(p1_topic_names, p2_topic_names, hashOrder) ==
    [common_topics |-> ListOfSet(p1_topic_names \cap p2_topic_names, hashOrder),
     new_in_period2 |-> ListOfSet(p2_topic_names \ p1_topic_names, hashOrder),
     dropped_from_period1 |-> ListOfSet(p1_topic_names \ p2_topic_names, hashOrder)]

\* The mapping top_topics_comparison builds from the top topics it read.
ComparisonData(p1_start, p1_end, p2_start, p2_end, period1_topics, period2_topics, hashOrder) ==
    [period1 |-> [start |-> p1_start, end |-> p1_end, topics |-> period1_topics],
     period2 |-> [start |-> p2_start, end |-> p2_end, topics |-> period2_topics],
     comparison |->
        ComparisonStats({period1_topics[i].topic : i \in 1..Len(period1_topics)},
                        {period2_topics[i].topic : i \in 1..Len(period2_topics)},
                        hashOrder)]

\* top_topics_comparison: the top topics of both periods and the names they
\* share, gain and lose; the three-key fallback on any exception.
top_topics_comparison(p1_start, p1_end, p2_start, p2_end, limit, st, open, stmt, hashOrder) ==
    LET c == get_db_connection(TRUE, open)
    IN  ReadReturn(
            IF LimitFailure(ReadFailure(c, stmt, << p1_start, p1_end, limit,
                                                    p2_start, p2_end >>),
                            SqlLimit(limit)) # NoExc
            THEN [period1 |-> [topics |-> << >>],
                  period2 |-> [topics |-> << >>],
                  comparison |-> << >>]
            ELSE ComparisonData(p1_start, p1_end, p2_start, p2_end,
                     get_top_topics(st, p1_start, p1_end, SqlLimit(limit)),
                     get_top_topics(st, p2_start, p2_end, SqlLimit(limit)),
                     hashOrder),
            c)

\* The LIKE operator of the storage engine: % stands for any run of
\* characters, _ for any one character, and letters match without regard to
\* case; the statement declares no ESCAPE character.
RECURSIVE Like(_, _)
Like(p, s) ==
    IF p = << >> THEN s = << >>
    ELSE IF Head(p) = "%"
    THEN \E k \in 0..Len(s) : Like(Tail(p), SubSeq(s, k + 1, Len(s)))
    ELSE /\ s # << >>
         /\ Head(p) = "_" \/ LowerChar(Head(p)) = LowerChar(Head(s))
         /\ Like(Tail(p), Tail(s))

\* variant of NameLike: the search term is compared as the caller wrote it
NameLike_AsWritten(name, query) == SearchLiteral(Chars[query], Chars[name])

\* t.normalized_name LIKE ? with the parameter f"%{query.lower()}%"
NameLike(name, query) == Like(<< "%" >> \o Lower(Chars[query]) \o << "%" >>, Chars[name])

\* The topics whose name holds the query, dated from start_date and up to
\* end_date when these are given.
SearchHits(st, query, start_date, end_date) ==
    {tp \in st.topics :
        /\ NameLike(tp.name, query.s)
        /\ Truthy(start_date) =>
              (~SqlDate(start_date).null /\ DayOf(st, tp) >= SqlDate(start_date).day)
        /\ Truthy(end_date) =>
              (~SqlDate(end_date).null /\ DayOf(st, tp) <= SqlDate(end_date).day)}

SearchRow(st, tp) ==
    [topic_name |-> tp.name,
     normalized_name |-> tp.name,
     summary_text |-> tp.text,
     article_count |-> ArticleCount(st, {tp}),
     generated_at |-> DateText[DayOf(st, tp)] \o "T08:00:00",
     summary_id |-> tp.summary_id,
     articles |-> ArticleRows(st, {tp.id})]

\* The exception topic_search catches, if any: query.lower() comes before
\* the statement, whose dates are bound only when they are given.
SearchFailure(c, query, start_date, end_date, limit, lim, stmt) ==
    IF c.exc # NoExc THEN c.exc
    ELSE IF query.t # "str"
    THEN [type |-> "AttributeError",
          msg |-> "'" \o TypeName(query) \o "' object has no attribute 'lower'"]
    ELSE LimitFailure(
            ReadFailure(c, stmt,
                (IF Truthy(start_date) THEN << start_date >> ELSE << >>)
                \o (IF Truthy(end_date) THEN << end_date >> ELSE << >>)
                \o << limit >>),
            lim)

\* The rows of topic_search: ORDER BY s.generated_at DESC (the topics of one
\* summary in rowid order) LIMIT ?
SearchRows(st, hits, lim) ==
    LET ordered ==
            Limited(SortSeq(SetToSeq(hits),
                        LAMBDA a, b : \/ DayOf(st, a) > DayOf(st, b)
                                      \/ DayOf(st, a) = DayOf(st, b) /\ a.id < b.id),
                    lim)
    IN  [i \in 1..Len(ordered) |-> SearchRow(st, ordered[i])]

\* topic_search: the topics whose name holds the query, optionally dated
\* from start_date and up to end_date, newest first, at most `limit` of them;
\* the empty list on any exception.
topic_search(query, start_date, end_date, limit, st, open, stmt) ==
    LET c == get_db_connection(TRUE, open)
    IN  ReadReturn(
            IF SearchFailure(c, query, start_date, end_date, limit,
                             SqlLimit(limit), stmt) # NoExc
            THEN << >>
            ELSE SearchRows(st, SearchHits(st, query, start_date, end_date),
                            SqlLimit(limit)),
            c)

(***************************************************************************)
(* The LLM collaborator: call_llm and the usage log it writes.             *)
(***************************************************************************)
\* save_llm_usage: a read-write connection to the store, one INSERT into
\* llm_usage, committed; any exception is logged and swallowed.
save_llm_usage(st, open) ==
    LET c == get_db_connection(FALSE, open)
    IN  [store |-> IF c.exc = NoExc /\ c.conn = "rw"
                   THEN [st EXCEPT !.llm_usage = @ + 1] ELSE st,
         connLog |-> c.asked,
         leaked |-> c.leaked]

\* call_llm: the provider raises, or returns text and the usage is logged.
call_llm(llm, st, open) ==
    IF llm.kind = "raises"
    THEN [exc |-> llm.exc, val |-> llm.text, store |-> st,
          connLog |-> << >>, leaked |-> 0]
    ELSE LET log == save_llm_usage(st, open)
         IN  [exc |-> NoExc, val |-> llm.text, store |-> log.store,
              connLog |-> log.connLog, leaked |-> log.leaked]

(***************************************************************************)
(* Response formatting: "\n".join(lines).                                  *)
(***************************************************************************)
RECURSIVE Flatten(_)
Flatten(seqs) == IF seqs = << >> THEN << >> ELSE Head(seqs) \o Flatten(Tail(seqs))

RECURSIVE JoinWith(_, _)
JoinWith(sep, parts) ==
    IF parts = << >> THEN ""
    ELSE IF Len(parts) = 1 THEN parts[1]
    ELSE parts[1] \o sep \o JoinWith(sep, Tail(parts))

\* The two lines of each of the first n sample articles.
ArticleLines(articles, n) ==
    Flatten([j \in 1..Len(Take(articles, n)) |->
                << "  - " \o articles[j].title, "    " \o articles[j].link >>])

\* sorted(periods.keys()): the period keys of the rows in ascending string
\* order, each once (the keys strftime yields for the dates of DateText).
SortedPeriods(data) ==
    SelectSeq(<< "2024-01", "2024-01-01", "2024-01-02", "2024-01-03", "2024-W01" >>,
              LAMBDA k : \E i \in 1..Len(data) : data[i].period = k)

\* variant of TrendBlock: the first five rows of the period as they come
TrendBlock_InputOrder(data, k) ==
    LET top_items == Take(SelectSeq(data, LAMBDA item : item.period = k), 5)
    IN  << "\n**" \o k \o "**" >>
        \o Flatten([i \in 1..Len(top_items) |->
               << "- " \o top_items[i].topic \o ": "
                    \o ToString(top_items[i].story_count) \o " stories, "
                    \o ToString(top_items[i].article_count) \o " articles" >>
               \o ArticleLines(top_items[i].articles, 2)])

\* The block of one period: its heading and its five topics with most stories.
TrendBlock(data, k) ==
    LET top_items ==
            Take(SortSeq(SelectSeq(data, LAMBDA item : item.period = k),
                         LAMBDA a, b : a.story_count > b.story_count), 5)
    IN  << "\n**" \o k \o "**" >>
        \o Flatten([i \in 1..Len(top_items) |->
               << "- " \o top_items[i].topic \o ": "
                    \o ToString(top_items[i].story_count) \o " stories, "
                    \o ToString(top_items[i].article_count) \o " articles" >>
               \o ArticleLines(top_items[i].articles, 2)])

\* _format_trends_response: the heading, then one block per period key.
_format_trends_response(data, start_date, end_date, period) ==
    LET keys == SortedPeriods(data)
    IN  JoinWith("\n",
            << "Topic trends from " \o Str(start_date) \o " to "
                 \o Str(end_date) \o " (by " \o Str(period) \o "):\n" >>
            \o Flatten([i \in 1..Len(keys) |-> TrendBlock(data, keys[i])]))

\* d.get(key, default) of the mappings of the comparison data
GetOr(d, key, default) == IF key \in DOMAIN d THEN d[key] ELSE default

\* The heading and the first five topics of a period, nothing without topics.
TopTopicLines(heading, topics) ==
    IF topics = << >> THEN << >>
    ELSE << heading >>
         \o [i \in 1..Len(Take(topics, 5)) |->
               ToString(i) \o ". " \o topics[i].topic \o " ("
                  \o ToString(topics[i].story_count) \o " stories)"]

\* One line of the analysis, nothing for an empty list.
AnalysisLine(label, names) ==
    IF names # << >> THEN << label \o JoinWith(", ", Take(names, 5)) >> ELSE << >>

ComparisonLines(p1, p2, comp) ==
    << "Comparing " \o Str(GetOr(p1, "start", PyStr("?"))) \o " - "
         \o Str(GetOr(p1, "end", PyStr("?"))) \o " vs "
         \o Str(GetOr(p2, "start", PyStr("?"))) \o " - "
         \o Str(GetOr(p2, "end", PyStr("?"))) \o ":\n" >>
    \o TopTopicLines("**Period 1 Top Topics:**", p1.topics)
    \o TopTopicLines("\n**Period 2 Top Topics:**", p2.topics)
    \o << "\n**Analysis:**" >>
    \o AnalysisLine("- Consistent topics: ", GetOr(comp, "common_topics", << >>))
    \o AnalysisLine("- New in Period 2: ", GetOr(comp, "new_in_period2", << >>))
    \o AnalysisLine("- Dropped from Period 1: ",
                    GetOr(comp, "dropped_from_period1", << >>))

\* _format_comparison_response
_format_comparison_response(data) ==
    JoinWith("\n", ComparisonLines(data.period1, data.period2, data.comparison))

\* The block of one search result.
SearchBlock(item) ==
    << "\n**" \o item.topic_name \o "** ("
         \o Take(item.generated_at, 10) \o ")" >>
    \o (IF item.summary_text # ""
        THEN << "  " \o Take(item.summary_text, 200)
                  \o (IF Len(item.summary_text) > 200 THEN "..." ELSE "") >>
        ELSE << >>)
    \o (IF item.articles # << >>
        THEN << "  Articles (" \o ToString(item.article_count) \o "):" >>
             \o ArticleLines(item.articles, 3)
        ELSE << >>)

\* _format_search_response
_format_search_response(data, query) ==
    JoinWith("\n",
              << "Found " \o ToString(Len(data)) \o " results for '"
                   \o Str(query) \o "':\n" >>
              \o Flatten([i \in 1..Len(Take(data, 10)) |-> SearchBlock(data[i])])
              \o (IF Len(data) > 10
                  THEN << "\n... and " \o ToString(Len(data) - 10)
                            \o " more results" >>
                  ELSE << >>))

\* row.get(col, "") of a row mapping
RowGet(row, col) ==
    IF \E i \in 1..Len(row) : row[i][1] = col
    THEN row[Min({i \in 1..Len(row) : row[i][1] = col})][2]
    ELSE PyStr("")

\* The header and the rows of the table of _format_custom_response; the
\* columns are the keys of the first row.
TableLines(data, shown) ==
    LET columns == [i \in 1..Len(data[1]) |-> data[1][i][1]]
    IN  << JoinWith(" | ", columns),
           "--------------------------------------------------" >>
        \o [r \in 1..Len(shown) |->
              JoinWith(" | ", [i \in 1..Len(columns) |->
                                  Take(Str(RowGet(shown[r], columns[i])), 30)])]

\* variant of _format_custom_response: the table is cut only above 25 rows
_format_custom_response_CutAbove25(data, explanation) ==
    IF data = << >> THEN "Query returned no results."
    ELSE JoinWith("\n",
           << Str(explanation) \o "\n" >>
           \o (IF Len(data) <= 25
               THEN TableLines(data, data)
               ELSE << "Returned " \o ToString(Len(data))
                         \o " rows. Showing first 10:" >>
                    \o TableLines(data, Take(data, 10))))

\* _format_custom_response
_format_custom_response(data, explanation) ==
    IF data = << >> THEN "Query returned no results."
    ELSE JoinWith("\n",
           << Str(explanation) \o "\n" >>
           \o (IF Len(data) <= 20
               THEN TableLines(data, data)
               ELSE << "Returned " \o ToString(Len(data))
                         \o " rows. Showing first 10:" >>
                    \o TableLines(data, Take(data, 10))))

(***************************************************************************)
(* The handlers of QueryEngine. Each returns                               *)
(* [exc, val, store, connLog, leaked, steps]: the exception it lets out,   *)
(* the result mapping it returns, and what it did on the way. `env` is     *)
(* what the store and the storage engine do during the call.               *)
(***************************************************************************)
\* The `data` of a result: None, a list of rows, a mapping, a str.
DataNone == [t |-> "none", rows |-> << >>]

DataList(rows) == [t |-> "list", rows |-> rows]

DataDict(d) == [t |-> "dict", rows |-> << d >>]

Result(success, query_type, data, response) ==
    [success |-> success, query_type |-> query_type,
     data |-> data, response |-> response]

Returned(result, st, reader, steps) ==
    [exc |-> NoExc, val |-> result, store |-> st,
     connLog |-> reader.connLog, leaked |-> reader.leaked, steps |-> steps]

Raised(exc, st, reader, steps) ==
    [exc |-> exc, val |-> << >>, store |-> st,
     connLog |-> reader.connLog, leaked |-> reader.leaked, steps |-> steps]

NoReader == [connLog |-> << >>, leaked |-> 0]

\* _execute_trends, from the return of topic_counts_by_period on
TrendsResult(r, start_date, end_date, period, st) ==
    IF r.exc # NoExc
    THEN Raised(r.exc, st, r, << "_execute_trends", "topic_counts_by_period" >>)
    ELSE IF r.val = << >>
    THEN Returned(Result(TRUE, "trends", DataList(<< >>),
                    "No data found for the period " \o Str(start_date)
                       \o " to " \o Str(end_date) \o "."),
                  st, r, << "_execute_trends", "topic_counts_by_period" >>)
    ELSE Returned(Result(TRUE, "trends", DataList(r.val),
                    _format_trends_response(r.val, start_date, end_date, period)),
                  st, r, << "_execute_trends", "topic_counts_by_period",
                            "_format_trends_response" >>)

\* _execute_trends, from the check of the date range on
TrendsWith(start_date, end_date, period, st, env) ==
    IF ~Truthy(start_date) \/ ~Truthy(end_date)
    THEN Returned(Result(FALSE, "trends", DataNone,
                    "Could not determine date range for trends query."),
                  st, NoReader, << "_execute_trends" >>)
    ELSE TrendsResult(topic_counts_by_period(start_date, end_date, period,
                                             st, env.main, env.stmt),
                      start_date, end_date, period, st)

\* _execute_trends
_execute_trends(params, st, env) ==
    IF params.t # "dict"
    THEN Raised(GetAttrError(params), st, NoReader, << "_execute_trends" >>)
    ELSE TrendsWith(DictGet(params, "start_date", PyNone),
                    DictGet(params, "end_date", PyNone),
                    DictGet(params, "period", PyStr("week")), st, env)

\* _execute_comparison, from the return of top_topics_comparison on
ComparisonResult(r, st) ==
    Returned(Result(TRUE, "comparison", DataDict(r.val),
                    _format_comparison_response(r.val)),
             st, r, << "_execute_comparison", "top_topics_comparison",
                       "_format_comparison_response" >>)

\* _execute_comparison, from the check of the four dates on
ComparisonWith(p1_start, p1_end, p2_start, p2_end, limit, st, env) ==
    IF ~(Truthy(p1_start) /\ Truthy(p1_end) /\ Truthy(p2_start) /\ Truthy(p2_end))
    THEN Returned(Result(FALSE, "comparison", DataNone,
                    "Could not determine both time periods for comparison."),
                  st, NoReader, << "_execute_comparison" >>)
    ELSE ComparisonResult(
            top_topics_comparison(p1_start, p1_end, p2_start, p2_end, limit,
                                  st, env.main, env.stmt, env.hashOrder),
            st)

\* _execute_comparison
_execute_comparison(params, st, env) ==
    IF params.t # "dict"
    THEN Raised(GetAttrError(params), st, NoReader, << "_execute_comparison" >>)
    ELSE ComparisonWith(DictGet(params, "period1_start", PyNone),
                        DictGet(params, "period1_end", PyNone),
                        DictGet(params, "period2_start", PyNone),
                        DictGet(params, "period2_end", PyNone),
                        DictGet(params, "limit", PyInt(10)), st, env)

\* The date part of the message for a search without results.
DateFilter(start_date, end_date) ==
    IF Truthy(start_date) /\ Truthy(end_date)
    THEN " between " \o Str(start_date) \o " and " \o Str(end_date)
    ELSE IF Truthy(start_date) THEN " after " \o Str(start_date)
    ELSE IF Truthy(end_date) THEN " before " \o Str(end_date)
    ELSE ""

\* _execute_search, from the return of topic_search on
SearchResult(r, query, start_date, end_date, st) ==
    IF r.val = << >>
    THEN Returned(Result(TRUE, "search", DataList(<< >>),
                    "No topics found matching '" \o Str(query) \o "'"
                       \o DateFilter(start_date, end_date) \o "."),
                  st, r, << "_execute_search", "topic_search" >>)
    ELSE Returned(Result(TRUE, "search", DataList(r.val),
                    _format_search_response(r.val, query)),
                  st, r, << "_execute_search", "topic_search",
                            "_format_search_response" >>)

\* _execute_search, from the check of the search term on
SearchWith(query, start_date, end_date, limit, st, env) ==
    IF ~Truthy(query)
    THEN Returned(Result(FALSE, "search", DataNone, "No search term provided."),
                  st, NoReader, << "_execute_search" >>)
    ELSE SearchResult(topic_search(query, start_date, end_date, limit,
                                   st, env.main, env.stmt),
                      query, start_date, end_date, st)

\* _execute_search
_execute_search(params, st, env) ==
    IF params.t # "dict"
    THEN Raised(GetAttrError(params), st, NoReader, << "_execute_search" >>)
    ELSE SearchWith(DictGet(params, "query", PyStr("")),
                    DictGet(params, "start_date", PyNone),
                    DictGet(params, "end_date", PyNone),
                    DictGet(params, "limit", PyInt(20)), st, env)

\* variant of CustomSqlFailure: the failure text is handed back as the data
CustomSqlFailure_ResultAsData(result) ==
    Result(FALSE, "custom", [t |-> "str", rows |-> << result >>], "Query failed: " \o result)

\* The mapping _execute_custom_sql returns when execute_safe_sql fails.
CustomSqlFailure(result) ==
    Result(FALSE, "custom", DataNone, "Query failed: " \o result)

\* variant of SafeSqlSteps: the statement is run before the text is validated
SafeSqlSteps_ExecuteFirst(r, open) ==
    << "_execute_custom_sql", "execute_safe_sql" >>
    \o (IF r.connLog # << >> THEN << "get_db_connection" >> ELSE << >>)
    \o (IF r.connLog # << >> /\ open = "ok" THEN << "conn.execute" >> ELSE << >>)
    \o << "validate_sql" >>

\* What execute_safe_sql ran: the validation, then the connection and the
\* statement if it got that far.
SafeSqlSteps(r, open) ==
    << "_execute_custom_sql", "execute_safe_sql", "validate_sql" >>
    \o (IF r.connLog # << >> THEN << "get_db_connection" >> ELSE << >>)
    \o (IF r.connLog # << >> /\ open = "ok" THEN << "conn.execute" >> ELSE << >>)

\* _execute_custom_sql, from the return of execute_safe_sql on
CustomSqlResult(r, explanation, open) ==
    IF ~r.ret.ok
    THEN Returned(CustomSqlFailure(r.ret.reason), r.store, r, SafeSqlSteps(r, open))
    ELSE Returned(Result(TRUE, "custom", DataList(r.ret.rows),
                    _format_custom_response(r.ret.rows, explanation)),
                  r.store, r, SafeSqlSteps(r, open) \o << "_format_custom_response" >>)

\* _execute_custom_sql, from the check of the SQL text on. A text that is not
\* a str raises inside validate_sql, before the `try` of execute_safe_sql.
CustomSqlWith(sql_text, explanation, st, env) ==
    IF ~Truthy(sql_text)
    THEN Returned(Result(FALSE, "custom", DataNone, "No SQL query generated."),
                  st, NoReader, << "_execute_custom_sql" >>)
    ELSE IF sql_text.t # "chars"
    THEN Raised([type |-> "AttributeError",
                 msg |-> "'" \o TypeName(sql_text)
                            \o "' object has no attribute 'strip'"],
                st, NoReader,
                << "_execute_custom_sql", "execute_safe_sql", "validate_sql" >>)
    ELSE CustomSqlResult(execute_safe_sql(sql_text.c, st, env.main, env.kind, env.cursor),
                         explanation, env.main)

\* _execute_custom_sql
_execute_custom_sql(params, st, env) ==
    IF params.t # "dict"
    THEN Raised(GetAttrError(params), st, NoReader, << "_execute_custom_sql" >>)
    ELSE CustomSqlWith(DictGet(params, "sql", PyChars(<< >>)),
                       DictGet(params, "explanation", PyStr("Custom query")), st, env)

\* x == "literal"
IsStr(x, s) == x.t = "str" /\ x.s = s

\* variant of Route: a name outside the four is served by the search handler
Route_DefaultsToSearch(func_name, params, st, env) ==
    CASE IsStr(func_name, "get_trends") -> _execute_trends(params, st, env)
      [] IsStr(func_name, "compare_periods") -> _execute_comparison(params, st, env)
      [] IsStr(func_name, "execute_sql") -> _execute_custom_sql(params, st, env)
      [] OTHER -> _execute_search(params, st, env)

\* _execute_function, from the reading of the classification on
Route(func_name, params, st, env) ==
    CASE IsStr(func_name, "get_trends") -> _execute_trends(params, st, env)
      [] IsStr(func_name, "compare_periods") -> _execute_comparison(params, st, env)
      [] IsStr(func_name, "search_topics") -> _execute_search(params, st, env)
      [] IsStr(func_name, "execute_sql") -> _execute_custom_sql(params, st, env)
      [] OTHER -> Returned(Result(FALSE, "unknown", DataNone,
                             "Unknown function: " \o Str(func_name)),
                           st, NoReader, << >>)

\* The steps of a callee after the steps of its caller.
After(steps, out) == [out EXCEPT !.steps = steps \o @]

\* _execute_function: route on classification["function"].
_execute_function(classification, st, env) ==
    IF classification.t # "dict"
    THEN Raised(GetAttrError(classification), st, NoReader, << "_execute_function" >>)
    ELSE After(<< "_execute_function" >>,
               Route(DictGet(classification, "function", PyStr("")),
                     DictGet(classification, "parameters", PyDict(<< >>)), st, env))

(***************************************************************************)
(* QueryEngine.classify_and_execute.                                       *)
(***************************************************************************)
\* _get_date_context: get_date_range, called while the prompt is built,
\* before the `try`.
_get_date_context(st, env) == get_date_range(st, env.ctx, "read")

\* The mapping of the `except Exception` clause.
ErrorResult(exc) ==
    Result(FALSE, "error", DataNone, "Error processing query: " \o exc.msg)

\* variant of CatchException: only the collaborator's exceptions are caught
CatchException_OnlyCallErrors(out) ==
    IF out.exc # NoExc /\ out.steps[Len(out.steps)] = "call_llm"
    THEN [out EXCEPT !.exc = NoExc, !.val = ErrorResult(out.exc)]
    ELSE out

\* `except Exception as e` around the call, the parse and the routing.
CatchException(out) ==
    IF out.exc # NoExc
    THEN [out EXCEPT !.exc = NoExc, !.val = ErrorResult(out.exc)]
    ELSE out

\* The connections of the earlier steps before those of a later one.
Earlier(before, out) ==
    [out EXCEPT !.connLog = before.connLog \o @, !.leaked = before.leaked + @]

\* The body of the `try`, from the parsed classification on.
Classified(classification, st, env) ==
    IF ~Truthy(classification)
    THEN Returned(Result(FALSE, "unknown", DataNone,
                    "I couldn't understand your query. Please try rephrasing it."),
                  st, NoReader, << "_parse_classification" >>)
    ELSE After(<< "_parse_classification" >>,
               _execute_function(classification, st, env))

\* variant of Called: a failed call is treated as an empty answer and parsed
Called_IgnoresFailure(call, env) ==
    After(<< "call_llm" >>,
          Earlier(call, Classified(IF call.exc # NoExc THEN PyNone
                                   ELSE ParseClassification(call.val),
                                   call.store, env)))

\* The body of the `try`, from the return of call_llm on.
Called(call, env) ==
    IF call.exc # NoExc
    THEN Raised(call.exc, call.store, call, << "call_llm" >>)
    ELSE After(<< "call_llm" >>,
               Earlier(call, Classified(ParseClassification(call.val), call.store, env)))

\* classify_and_execute, from the building of the prompt on.
Prompted(ctx, llm, st, env) ==
    After(<< "get_date_range" >>,
          Earlier(ctx, CatchException(Called(call_llm(llm, st, env.log), env))))

\* classify_and_execute: [exc, val, store, connLog, leaked, steps], exc the
\* exception that escapes the method and val the mapping it returns.
classify_and_execute(llm, st, env) ==
    Prompted(_get_date_context(st, env), llm, st, env)

(***************************************************************************)
(* Invocations of classify_and_execute: what the LLM collaborator answers  *)
(* and what the store does.                                                *)
(***************************************************************************)
\* A key the object does not have.
Absent == PyVal("absent", "", 0, << >>, << >>)

\* The JSON object with the given pairs, absent keys left out.
MkDict(pairs) == PyDict(SelectSeq(pairs, LAMBDA kv : kv[2].t # "absent"))

TrendsParams ==
    { MkDict(<< << "start_date", s >>, << "end_date", e >>, << "period", p >> >>) :
        s \in {Absent, PyStr(""), PyStr("2024-01-01"), PyStr("2024-01-02"),
               PyList(<< PyStr("2024-01-01") >>)},
        e \in {Absent, PyStr("2024-01-02"), PyStr("2024-01-03"), PyStr("next week")},
        p \in {Absent, PyStr("day"), PyStr("month"), PyStr("year"), PyList(<< >>)} }

ComparisonParams ==
    { MkDict(<< << "period1_start", a >>, << "period1_end", b >>,
                << "period2_start", c >>, << "period2_end", d >>,
                << "limit", n >> >>) :
        a \in {Absent, PyStr("2024-01-01")},
        b \in {PyStr("2024-01-01"), PyStr("")},
        c \in {PyStr("2024-01-02"), PyStr("2024-01-03"), PyNone},
        d \in {PyStr("2024-01-03"), PyList(<< PyStr("2024-01-03") >>)},
        n \in {Absent, PyInt(1), PyInt(-1), PyStr("2"), PyStr("ten")} }

SearchParams ==
    { MkDict(<< << "query", q >>, << "start_date", s >>, << "end_date", e >>,
                << "limit", n >> >>) :
        q \in {Absent, PyStr(""), PyStr("ai"), PyStr("OpenAI"), PyStr("openai"),
               PyStr("open_i"), PyStr("zzz"), PyInt(5)},
        s \in {Absent, PyStr("2024-01-02")},
        e \in {Absent, PyStr("2024-01-01")},
        n \in {Absent, PyInt(1), PyInt(-1), PyNone} }

SqlParams ==
    { MkDict(<< << "sql", s >>, << "explanation", x >> >>) :
        s \in {Absent, PyInt(5)} \cup {PyChars(c) : c \in
    { << >>,
      Chars["SELECT "] \o Chars["x"],
      Chars["select "] \o Chars["x"] \o Chars[";"],
      Chars["SELECT "] \o Chars["x"] \o Chars[";"] \o Chars[" "] \o Chars["DROP"],
      Chars["SELECT "] \o Chars["x"] \o Chars["--"],
      Chars["DROP"] \o Chars[" "] \o Chars["x"] }},
        x \in {Absent, PyStr("Topic count"), PyNone} }

\* Parameters that are not what any handler expects.
OddParams == {Absent, PyNone, PyStr("none"), PyList(<< >>), PyDict(<< >>)}

OddFunctions == {Absent, PyStr("summarize"), PyInt(7), PyNone}

Classification(f, p) ==
    MkDict(<< << "function", f >>, << "parameters", p >>,
              << "reasoning", PyStr("because") >> >>)

Classifications ==
    {Classification(PyStr("get_trends"), p) : p \in TrendsParams}
    \cup {Classification(PyStr("compare_periods"), p) : p \in ComparisonParams}
    \cup {Classification(PyStr("search_topics"), p) : p \in SearchParams}
    \cup {Classification(PyStr("execute_sql"), p) : p \in SqlParams}
    \cup {Classification(f, p) :
            f \in {PyStr("get_trends"), PyStr("compare_periods"),
                   PyStr("search_topics"), PyStr("execute_sql")} \cup OddFunctions,
            p \in OddParams}
    \cup {Classification(f, MkDict(<< << "query", PyStr("ai") >> >>)) : f \in OddFunctions}

\* JSON values that are not classification objects.
OddJson ==
    {PyNone, PyBool(FALSE), PyBool(TRUE), PyInt(0), PyInt(42), PyStr(""),
     PyStr("hello"), PyList(<< >>), PyList(<< PyInt(1), PyInt(2) >>), PyDict(<< >>),
     PyList(<< Classification(PyStr("search_topics"),
                              MkDict(<< << "query", PyStr("ai") >> >>)) >>)}

\* Classification objects sent with prose or fences around them.
WrappedJson ==
    {Classification(PyStr("search_topics"), MkDict(<< << "query", PyStr("ai") >> >>)),
     Classification(PyStr("get_trends"), Absent),
     Classification(PyStr("execute_sql"), PyDict(<< >>)),
     MkDict(<< << "function", PyStr("search_topics") >>, << "query", PyStr("ai") >> >>)}

ResponseTexts ==
    [pre : BOOLEAN, fenced : BOOLEAN, post : BOOLEAN,
     body : {TextBody(FALSE), TextBody(TRUE)}
            \cup {JsonBody(x) : x \in OddJson \cup WrappedJson}]
    \cup {[pre |-> FALSE, fenced |-> FALSE, post |-> FALSE, body |-> JsonBody(c)] :
            c \in Classifications}

\* What the collaborator does: it raises (a missing key, a failed request,
\* an exception without a message) or it returns a text.
LlmBehaviours ==
    {[kind |-> "raises", exc |-> e,
      text |-> [pre |-> FALSE, fenced |-> FALSE, post |-> FALSE,
                body |-> TextBody(FALSE)]] :
        e \in {[type |-> "ValueError", msg |-> "OpenAI API key is required"],
               [type |-> "requests.HTTPError", msg |-> "429 Too Many Requests"],
               [type |-> "Exception", msg |-> ""]}}
    \cup {[kind |-> "returns", exc |-> NoExc, text |-> x] : x \in ResponseTexts}

\* The environments an invocation can tell apart: an operation that is not
\* called does not meet its part of the environment.
EnvsOf(returns, reads, custom, comparison) ==
    [ctx : {"ok", "pragma_error"},
     log : IF returns THEN {"ok", "connect_error"} ELSE {NoEnv.log},
     main : IF reads \/ custom THEN OpenOutcomes ELSE {NoEnv.main},
     stmt : IF reads THEN {"read", "error"} ELSE {NoEnv.stmt},
     kind : IF custom THEN StmtKinds ELSE {NoEnv.kind},
     cursor : IF custom THEN SampleCursors \cup {LongCursor} ELSE {NoEnv.cursor},
     hashOrder : IF comparison THEN {"asc", "desc"} ELSE {NoEnv.hashOrder}]

EnvsFor(b) ==
    LET c == IF b.kind = "returns" THEN ParseClassification(b.text) ELSE PyNone
        f == IF c.t = "dict" THEN DictGet(c, "function", PyStr("")) ELSE PyNone
    IN  EnvsOf(b.kind = "returns",
               IsStr(f, "get_trends") \/ IsStr(f, "compare_periods")
                  \/ IsStr(f, "search_topics"),
               IsStr(f, "execute_sql"),
               IsStr(f, "compare_periods"))

\* A store nothing was ingested into.
EmptyStore == [summaries |-> {}, topics |-> {}, articles |-> {}, llm_usage |-> 0]

Init ==
    /\ sql = << >>
    /\ nfrags = 0
    /\ kwUsed = FALSE
    /\ pc = "idle"
    /\ ret = NoRet
    /\ store \in {PopulatedStore, EmptyStore}
    /\ connLog = << >>
    /\ openConns = 0
    /\ theLlm = NoLlm
    /\ theEnv = NoEnv
    /\ answer = NoResult
    /\ trace = << >>
    /\ queries = 0
    /\ calls = << >>

\* What an invocation leaves behind: the answer, the store, the connections.
Answer(b, e, r) ==
    /\ theLlm' = b
    /\ theEnv' = e
    /\ answer' = [exc |-> r.exc, val |-> r.val]
    /\ store' = r.store
    /\ connLog' = r.connLog
    /\ openConns' = openConns + r.leaked
    /\ trace' = r.steps

\* One invocation of classify_and_execute(user_query), from the call to the
\* return or the exception that escapes.
ClassifyAndExecute ==
    /\ pc = "idle"
    /\ \E b \in LlmBehaviours :
          \E e \in EnvsFor(b) :
             Answer(b, e, classify_and_execute(b, store, e))
    /\ pc' = "answered"
    /\ queries' = queries + 1
    /\ UNCHANGED <<sql, nfrags, kwUsed, ret, calls>>

\* The caller asks again: the store and the process stay as they are.
NextQuery ==
    /\ pc = "answered"
    /\ queries < MaxQueries
    /\ pc' = "idle"
    /\ theLlm' = NoLlm
    /\ theEnv' = NoEnv
    /\ answer' = NoResult
    /\ trace' = << >>
    /\ connLog' = << >>
    /\ UNCHANGED <<store, openConns, queries>>
    /\ UNCHANGED <<sql, nfrags, kwUsed, ret, calls>>

Next == ClassifyAndExecute \/ NextQuery

Spec == Init /\ [][Next]_vars

(***************************************************************************)
(* topic_search called on its own, as the other callers of the store       *)
(* helper and its tests call it.                                           *)
(***************************************************************************)
\* The arguments of a call and what the store does during it.
SearchCalls ==
    [query : {PyStr("openai"), PyStr("OPENAI"), PyStr("OpenAI"), PyStr("open_i"),
              PyStr("zzz")},
     start_date : {PyNone, PyStr("2024-01-02")},
     end_date : {PyNone},
     limit : {PyInt(50), PyInt(1)},
     open : {"ok", "connect_error"},
     stmt : {"read"}]
    \cup [query : {PyStr("openai"), PyStr("OpenAI")}, start_date : {PyNone},
          end_date : {PyNone}, limit : {PyInt(50)}, open : {"ok"}, stmt : {"error"}]

\* topic_search(query, start_date, end_date, limit, db_path)
CallTopicSearch ==
    /\ Len(calls) < MaxSearches
    /\ \E a \in SearchCalls :
          LET r == topic_search(a.query, a.start_date, a.end_date, a.limit,
                                store, a.open, a.stmt)
          IN  /\ calls' = Append(calls, [args |-> a, result |-> r.val])
              /\ connLog' = connLog \o r.connLog
              /\ openConns' = openConns + r.leaked
    /\ UNCHANGED <<sql, nfrags, kwUsed, pc, ret, store>>
    /\ UNCHANGED engineVars

SpecSearch == Init /\ [][CallTopicSearch]_vars

(***************************************************************************)
(* The report helpers called on their own: _format_trends_response on a    *)
(* data list, and top_topics_comparison against a store.                   *)
(***************************************************************************)
\* A data list handed to the formatter: n rows, each of a topic of its own,
\* with the periods p and the story counts c, and zero to three sample articles.
TrendSample(n, p, c) ==
    LET samples == << [title |-> "GPT-5 announced", link |-> "https://example.com/gpt5"],
                      [title |-> "OpenAI and Microsoft", link |-> "https://example.com/msft"],
                      [title |-> "Claude 3 launched", link |-> "https://example.com/claude3"] >>
        topics == << "openai", "google", "anthropic", "meta", "mistral", "nvidia", "apple",
                     "amazon" >>
    IN  [i \in 1..n |->
            [period |-> p[i], topic |-> topics[i], story_count |-> c[i],
             article_count |-> (i + 2) % 4,
             articles |-> Take(samples, (i + 2) % 4)]]

\* _format_trends_response(data, start_date, end_date, period, user_query), on
\* up to MaxRows rows in any order of period and story count.
CallFormatTrends ==
    /\ calls = << >>
    /\ \E n \in 0..MaxRows :
          \E p \in [1..n -> {"2024-01-01", "2024-01-02"}], c \in [1..n -> {1, 2}] :
             calls' = << [op |-> "_format_trends_response", data |-> TrendSample(n, p, c),
                          result |-> _format_trends_response(TrendSample(n, p, c),
                                         PyStr("2024-01-01"), PyStr("2024-01-02"),
                                         PyStr("day"))] >>
    /\ UNCHANGED <<sql, nfrags, kwUsed, pc, ret, store, connLog, openConns>>
    /\ UNCHANGED engineVars

\* The arguments of a comparison and the store it reads: the ingested store,
\* or one where a topic leads the first day and trails on the second.
ComparisonCalls ==
    [st : {PopulatedStore,
           [summaries |-> {[id |-> 1, day |-> 1], [id |-> 2, day |-> 1],
                           [id |-> 3, day |-> 2], [id |-> 4, day |-> 2]},
            topics    |-> {[id |-> 1, summary_id |-> 1, name |-> "openai developments", text |-> ""],
                           [id |-> 2, summary_id |-> 1, name |-> "google ai", text |-> ""],
                           [id |-> 3, summary_id |-> 2, name |-> "openai developments", text |-> ""],
                           [id |-> 4, summary_id |-> 3, name |-> "anthropic news", text |-> ""],
                           [id |-> 5, summary_id |-> 3, name |-> "openai developments", text |-> ""],
                           [id |-> 6, summary_id |-> 4, name |-> "anthropic news", text |-> ""]},
            articles  |-> {[id |-> 1, topic_id |-> 1, title |-> "GPT-5 announced",
                            link |-> "https://example.com/gpt5"],
                           [id |-> 2, topic_id |-> 4, title |-> "Claude 3 launched",
                            link |-> "https://example.com/claude3"]},
            llm_usage |-> 0]},
     p1_start : {PyStr("2024-01-01")},
     p1_end : {PyStr("2024-01-01")},
     p2_start : {PyStr("2024-01-02"), PyStr("2024-01-03")},
     p2_end : {PyStr("2024-01-02"), PyStr("2024-01-03")},
     limit : {PyInt(1), PyInt(2), PyInt(10)},
     env : {<< "ok", "read" >>, << "ok", "error" >>, << "connect_error", "read" >>},
     hashOrder : {"asc", "desc"}]

\* top_topics_comparison(p1_start, p1_end, p2_start, p2_end, limit, db_path)
CallTopTopicsComparison ==
    /\ calls = << >>
    /\ \E a \in ComparisonCalls :
          LET r == top_topics_comparison(a.p1_start, a.p1_end, a.p2_start, a.p2_end,
                                         a.limit, a.st, a.env[1], a.env[2], a.hashOrder)
          IN  /\ calls' = << [op |-> "top_topics_comparison", args |-> a, result |-> r.val] >>
              /\ connLog' = connLog \o r.connLog
              /\ openConns' = openConns + r.leaked
    /\ UNCHANGED <<sql, nfrags, kwUsed, pc, ret, store>>
    /\ UNCHANGED engineVars

SpecReports == Init /\ [][CallFormatTrends \/ CallTopTopicsComparison]_vars

(***************************************************************************)
(* Vocabulary of the guardrail properties, defined on the text itself and  *)
(* not through the regular expressions of validate_sql.                    *)
(***************************************************************************)


\* The whole words of a text, upper-cased: its maximal runs of word characters.
WordsOf(s) ==
    LET u == Upper(s)
        starts == {i \in 1..Len(u) :
                      IsWordChar(u[i]) /\ (i = 1 \/ ~IsWordChar(u[i-1]))}
        endOf(i) == CHOOSE j \in i..Len(u) :
                        /\ \A k \in i..j : IsWordChar(u[k])
                        /\ (j = Len(u) \/ ~IsWordChar(u[j+1]))
    IN  {SubSeq(u, i, endOf(i)) : i \in starts}

\* The first word of a text: the run of word characters after its leading
\* whitespace, upper-cased (empty when the text starts otherwise).
FirstWord(s) ==
    LET u == LStrip(Upper(s))
        n == Cardinality({i \in 1..Len(u) : \A k \in 1..i : IsWordChar(u[k])})
    IN  SubSeq(u, 1, n)

DenylistWords == {Chars[FORBIDDEN_SQL_KEYWORDS[k]] : k \in 1..Len(FORBIDDEN_SQL_KEYWORDS)}

\* Statement verbs other than SELECT that are not on the denylist.
OtherVerbs == {Chars["WITH"]}

\* The text is a SELECT: after leading whitespace it starts with SELECT in
\* some letter case.
IsSelectText(s) == StartsWith(LStrip(Upper(s)), Chars["SELECT"])

\* p occurs in s as a substring.
Contains(p, s) ==
    \E i \in 1..Len(s) : i + Len(p) - 1 <= Len(s) /\
        \A k \in 1..Len(p) : s[i + k - 1] = p[k]

\* The first non-whitespace character after position i, "" when there is none.
NextNonSpace(s, i) ==
    LET rest == {j \in (i+1)..Len(s) : ~IsSpace(s[j])}
    IN  IF rest = {} THEN "" ELSE s[Min(rest)]

\* Some semicolon is followed, after optional whitespace, by a further
\* non-whitespace character.
SemicolonThenContent(s) ==
    \E i \in 1..Len(s) : s[i] = ";" /\ NextNonSpace(s, i) # ""

\* Some semicolon is followed, after optional whitespace, by a word character.
SemicolonThenWord(s) ==
    \E i \in 1..Len(s) : s[i] = ";" /\ IsWordChar(NextNonSpace(s, i))

HasCommentMarker(s) == Contains(<< "-", "-" >>, s) \/ Contains(<< "/", "*" >>, s)

(***************************************************************************)
(* Properties of execute_safe_sql and validate_sql (under SpecSql).        *)
(***************************************************************************)
\* C1: execute_safe_sql validates its input on every call: for a text that
\* validate_sql rejects it returns (False, that reason) and get_db_connection
\* is never called; it returns success only for a text validate_sql accepts.
C1_RejectedNeverOpens ==
    pc = "executed" =>
        LET v == validate_sql(sql)
        IN  /\ ~v.ok => /\ connLog = << >>
                        /\ openConns = 0
                        /\ ret = [ok |-> FALSE, reason |-> v.reason, rows |-> << >>]
            /\ ret.ok => v.ok

C1_Witness ==
    /\ pc = "executed"
    /\ FirstWord(sql) = Chars["DELETE"]
    /\ ret.reason = "Only SELECT queries are allowed"
    /\ connLog = << >>

\* C2: a call of execute_safe_sql leaves the contents of the store unchanged,
\* whatever the text and whatever the statement is to the storage engine.
C2_StoreUnchanged == [][pc' = "executed" => store' = store]_vars

\* A statement that passed validate_sql and would write was refused by the
\* read-only connection.
C2_Witness ==
    /\ pc = "executed"
    /\ validate_sql(sql).ok
    /\ connLog = << "ro" >>
    /\ ret.reason = "SQL error: attempt to write a readonly database"
    /\ store = PopulatedStore

\* C3: a text whose first word is a denylisted keyword, or a verb other than
\* SELECT such as WITH, is rejected by validate_sql with a non-empty reason.
C3_NonSelectRejected ==
    (pc = "validated" /\ FirstWord(sql) \in DenylistWords \cup OtherVerbs)
        => (~ret.ok /\ ret.reason # "")

C3_Witness ==
    /\ pc = "validated"
    /\ FirstWord(sql) = Chars["WITH"]
    /\ Contains(Chars["SELECT"], sql)
    /\ ~ret.ok
    /\ ret.reason = "Only SELECT queries are allowed"

\* C4: a SELECT text that contains a denylisted keyword as a whole word, in
\* any letter case and at any position, is rejected with the reason
\* "Forbidden keyword: K" for a denylisted K that is a whole word of the text.
C4_KeywordRejected ==
    (pc = "validated" /\ IsSelectText(sql) /\ WordsOf(sql) \cap DenylistWords # {})
        => /\ ~ret.ok
           /\ \E k \in 1..Len(FORBIDDEN_SQL_KEYWORDS) :
                 /\ ret.reason = "Forbidden keyword: " \o FORBIDDEN_SQL_KEYWORDS[k]
                 /\ Chars[FORBIDDEN_SQL_KEYWORDS[k]] \in WordsOf(sql)

\* A lower-case SELECT with a mixed-case keyword inside a string literal.
C4_Witness ==
    /\ pc = "validated"
    /\ StartsWith(sql, Chars["select "])
    /\ Contains(Chars["dRoP"], sql)
    /\ ret.reason = "Forbidden keyword: DROP"

\* C5 as stated: a text in which a semicolon is followed, after optional
\* whitespace, by any further non-whitespace character is rejected.
C5_Original ==
    (pc = "validated" /\ SemicolonThenContent(sql)) => ~ret.ok

\* C5 amended: a text in which a semicolon is followed, after optional
\* whitespace, by a word character (letter, digit or underscore) is rejected.
C5_SemicolonWordRejected ==
    (pc = "validated" /\ SemicolonThenWord(sql)) => ~ret.ok

C5_Witness ==
    /\ pc = "validated"
    /\ IsSelectText(sql)
    /\ SemicolonThenWord(sql)
    /\ ret = [ok |-> FALSE, reason |-> "Forbidden SQL pattern detected",
              rows |-> << >>]

\* C6: a text that contains -- or /* at any position, inside a string
\* literal or not, is rejected by validate_sql.
C6_CommentMarkerRejected ==
    (pc = "validated" /\ HasCommentMarker(sql)) => ~ret.ok

\* An otherwise legitimate SELECT whose string literal holds the marker.
C6_Witness ==
    /\ pc = "validated"
    /\ sql = Chars["SELECT "] \o Chars["'/*'"]
    /\ ret = [ok |-> FALSE, reason |-> "Forbidden SQL pattern detected",
              rows |-> << >>]

\* C7: a SELECT text with no denylisted keyword as a whole word, no comment
\* marker and no statement after a semicolon gets exactly (True, "").
C7_CleanSelectAccepted ==
    (/\ pc = "validated"
     /\ IsSelectText(sql)
     /\ WordsOf(sql) \cap DenylistWords = {}
     /\ ~HasCommentMarker(sql)
     /\ ~SemicolonThenWord(sql))
        => ret = [ok |-> TRUE, reason |-> "", rows |-> << >>]

\* An accepted SELECT that holds a denylisted keyword inside a longer word.
C7_Witness ==
    /\ pc = "validated"
    /\ ret.ok
    /\ \E w \in DenylistWords : Contains(w, Upper(sql))

(***************************************************************************)
(* Vocabulary of the engine properties.                                    *)
(***************************************************************************)
ResultKeys == {"success", "query_type", "data", "response"}

QueryTypes == {"trends", "comparison", "search", "custom", "unknown", "error"}

Ran(step) == \E i \in 1..Len(trace) : trace[i] = step

\* The collaborator returned text that holds no JSON object at all: text that
\* is not JSON, or a JSON scalar or array without an object in it.
NoObjectInText == 
    /\ theLlm.kind = "returns"
    /\ ~theLlm.text.body.json \/ ~HasObject(theLlm.text.body.val)

\* A handler, the SQL validation or the SQL execution ran.
HandlerOrSqlRan ==
    \E i \in 1..Len(trace) :
        trace[i] \in {"_execute_trends", "_execute_comparison", "_execute_search",
                      "_execute_custom_sql", "execute_safe_sql", "validate_sql",
                      "conn.execute"}

(***************************************************************************)
(* C8: classify_and_execute never raises, whatever the LLM collaborator    *)
(* and the store do; it returns a mapping with exactly the keys success,   *)
(* query_type, data and response, and query_type is one of trends,         *)
(* comparison, search, custom, unknown, error.                             *)
(***************************************************************************)
C8_NeverRaises ==
    pc = "answered" =>
        /\ answer.exc = NoExc
        /\ DOMAIN answer.val = ResultKeys
        /\ answer.val.query_type \in QueryTypes

\* An exception raised while routing or inside a handler came back as a result.
C8_Witness ==
    /\ pc = "answered"
    /\ theLlm.kind = "returns"
    /\ Ran("_execute_function")
    /\ answer.exc = NoExc
    /\ answer.val.query_type = "error"

(***************************************************************************)
(* C9: in every result, data is None whenever success is false, and        *)
(* response is a non-empty string.                                         *)
(***************************************************************************)
C9_FailureHasNoData ==
    (pc = "answered" /\ answer.exc = NoExc) =>
        /\ ~answer.val.success => answer.val.data.t = "none"
        /\ answer.val.response \in STRING
        /\ answer.val.response # ""

\* A custom query reached the storage engine and failed there.
C9_Witness ==
    /\ pc = "answered"
    /\ answer.exc = NoExc
    /\ ~answer.val.success
    /\ answer.val.query_type = "custom"
    /\ Ran("conn.execute")

(***************************************************************************)
(* C10: whenever the LLM collaborator returns, without raising, output     *)
(* from which no classification can be parsed, the result has success      *)
(* false and query_type "unknown", and no handler, SQL validation or SQL   *)
(* execution runs.                                                         *)
(***************************************************************************)
C10_UnparseableIsUnknown ==
    (pc = "answered" /\ NoObjectInText) =>
        /\ answer.exc = NoExc
        /\ answer.val.success = FALSE
        /\ answer.val.query_type = "unknown"
        /\ ~HandlerOrSqlRan

(***************************************************************************)
(* C11: when the call of the LLM collaborator raises, the result has       *)
(* success false and query_type "error" at once: the collaborator is       *)
(* called once, nothing is parsed or routed, no handler, SQL validation or *)
(* SQL execution runs, and the only store access of the invocation is the  *)
(* read of the date context that precedes the call.                        *)
(***************************************************************************)
C11_CallErrorIsImmediate ==
    (pc = "answered" /\ theLlm.kind = "raises") =>
        /\ answer.exc = NoExc
        /\ answer.val.success = FALSE
        /\ answer.val.query_type = "error"
        /\ answer.val.response = "Error processing query: " \o theLlm.exc.msg
        /\ trace = << "get_date_range", "call_llm" >>
        /\ connLog = << "ro" >>

\* The collaborator refused the request and the invocation answered.
C11_Witness ==
    /\ pc = "answered"
    /\ theLlm.kind = "raises"
    /\ theLlm.exc.type = "requests.HTTPError"
    /\ answer.val.query_type = "error"

\* The classification the parser hands to the router, when it hands one over:
\* a non-empty JSON object.
TheClassification == ParseClassification(theLlm.text)

Routed ==
    /\ theLlm.kind = "returns"
    /\ TheClassification.t = "dict"
    /\ Truthy(TheClassification)

TheFunction == DictGet(TheClassification, "function", PyStr(""))

TheParameters == DictGet(TheClassification, "parameters", PyDict(<< >>))

FunctionIs(name) == Routed /\ IsStr(TheFunction, name)

KnownFunction ==
    FunctionIs("get_trends") \/ FunctionIs("compare_periods")
       \/ FunctionIs("search_topics") \/ FunctionIs("execute_sql")

\* The steps and the connections of an invocation up to the router: the read
\* of the date context and the collaborator's usage log.
StepsToRouter ==
    << "get_date_range", "call_llm", "_parse_classification", "_execute_function" >>

ConnectionsToRouter == << "ro", "rw" >>

(***************************************************************************)
(* C12: for every classification whose function value is not one of        *)
(* get_trends, compare_periods, search_topics, execute_sql (a missing      *)
(* function included), the router returns success false, query_type        *)
(* "unknown" and data None, and it runs no handler, no SQL validation, no  *)
(* SQL execution and opens no connection to the store.                     *)
(***************************************************************************)
C12_UnknownFunctionNoEffects ==
    (pc = "answered" /\ Routed /\ ~KnownFunction) =>
        /\ answer.exc = NoExc
        /\ answer.val.success = FALSE
        /\ answer.val.query_type = "unknown"
        /\ answer.val.data.t = "none"
        /\ answer.val.response = "Unknown function: " \o Str(TheFunction)
        /\ trace = StepsToRouter
        /\ connLog = ConnectionsToRouter

\* A classification naming a function the router does not know, with
\* parameters a handler would accept.
C12_Witness ==
    /\ pc = "answered"
    /\ Routed
    /\ IsStr(TheFunction, "summarize")
    /\ TheParameters.t = "dict"
    /\ Truthy(TheParameters)
    /\ answer.val.query_type = "unknown"

\* The classification's parameters are an object in which `key` is absent or
\* empty.
ParamMissing(key) ==
    /\ TheParameters.t = "dict"
    /\ ~Truthy(DictGet(TheParameters, key, PyNone))

\* The message each handler gives when a parameter it needs is missing.
MissingParameterMessages ==
    {"Could not determine date range for trends query.",
     "Could not determine both time periods for comparison.",
     "No search term provided.",
     "No SQL query generated."}

(***************************************************************************)
(* C13: for each of the four functions, when one of its required           *)
(* parameters (get_trends: start_date, end_date; compare_periods:          *)
(* period1_start, period1_end, period2_start, period2_end; search_topics:  *)
(* query; execute_sql: sql and explanation) is absent or empty, the        *)
(* handler returns success false with its own message and makes no store   *)
(* access.                                                                 *)
(***************************************************************************)
C13_MissingParameterNoStore ==
    (/\ pc = "answered"
     /\ \/ FunctionIs("get_trends")
              /\ (ParamMissing("start_date") \/ ParamMissing("end_date"))
        \/ FunctionIs("compare_periods")
              /\ (ParamMissing("period1_start") \/ ParamMissing("period1_end")
                    \/ ParamMissing("period2_start") \/ ParamMissing("period2_end"))
        \/ FunctionIs("search_topics") /\ ParamMissing("query")
        \/ FunctionIs("execute_sql")
              /\ (ParamMissing("sql") \/ ParamMissing("explanation")))
    => /\ answer.exc = NoExc
       /\ answer.val.success = FALSE
       /\ answer.val.response \in MissingParameterMessages
       /\ connLog = ConnectionsToRouter

(***************************************************************************)
(* C14: no invocation of classify_and_execute writes to the store: every   *)
(* connection opened during an invocation, those of the call of the LLM    *)
(* collaborator included, is read-only, and the persisted rows are the     *)
(* same before and after the call.                                         *)
(***************************************************************************)
C14_InvocationOnlyReads ==
    [][(pc = "idle" /\ pc' = "answered") =>
          /\ store' = store
          /\ \A i \in 1..Len(connLog') : connLog'[i] = "ro"]_vars

\* A compare_periods result and the mapping it carries as data.
ComparisonAnswered ==
    /\ pc = "answered"
    /\ answer.exc = NoExc
    /\ answer.val.query_type = "comparison"
    /\ answer.val.success

ComparisonOf == answer.val.data.rows[1]

\* The topic names returned for a period.
NamesOf(topics) == {topics[i].topic : i \in 1..Len(topics)}

\* A list of the comparison as a set; a list the mapping does not carry is
\* read as the formatter reads it, as empty.
ListedIn(key) ==
    LET names == GetOr(ComparisonOf.comparison, key, << >>)
    IN  {names[i] : i \in 1..Len(names)}

NoRepeats(key) ==
    LET names == GetOr(ComparisonOf.comparison, key, << >>)
    IN  \A i, j \in 1..Len(names) : names[i] = names[j] => i = j

(***************************************************************************)
(* C15: for every compare_periods result, with P1 and P2 the sets of topic *)
(* names returned for period 1 and period 2, common_topics is P1 \cap P2,  *)
(* new_in_period2 is P2 \ P1 and dropped_from_period1 is P1 \ P2; each     *)
(* name is listed once.                                                    *)
(***************************************************************************)
C15_ComparisonIsSetAlgebra ==
    ComparisonAnswered =>
        /\ ListedIn("common_topics")
              = NamesOf(ComparisonOf.period1.topics) \cap NamesOf(ComparisonOf.period2.topics)
        /\ ListedIn("new_in_period2")
              = NamesOf(ComparisonOf.period2.topics) \ NamesOf(ComparisonOf.period1.topics)
        /\ ListedIn("dropped_from_period1")
              = NamesOf(ComparisonOf.period1.topics) \ NamesOf(ComparisonOf.period2.topics)
        /\ NoRepeats("common_topics")
        /\ NoRepeats("new_in_period2")
        /\ NoRepeats("dropped_from_period1")

\* Two periods that share a topic, with one topic gained and one lost.
C15_Witness ==
    /\ ComparisonAnswered
    /\ ListedIn("common_topics") = {"openai developments"}
    /\ ListedIn("new_in_period2") = {"anthropic news"}
    /\ ListedIn("dropped_from_period1") = {"google ai"}

\* The first place at or after `from` where `sep` stands in `s`, 0 if none.
SepAt(s, sep, from) ==
    LET hits == {i \in from..(Len(s) - Len(sep) + 1) :
                    SubSeq(s, i, i + Len(sep) - 1) = sep}
    IN  IF hits = {} THEN 0 ELSE CHOOSE i \in hits : \A j \in hits : i <= j

\* The pieces of `s` between the occurrences of `sep`.
RECURSIVE Split(_, _)
Split(s, sep) ==
    IF SepAt(s, sep, 1) = 0 THEN << s >>
    ELSE << SubSeq(s, 1, SepAt(s, sep, 1) - 1) >>
         \o Split(SubSeq(s, SepAt(s, sep, 1) + Len(sep), Len(s)), sep)

\* A custom SQL result with at least one row, and the lines of its response.
CustomAnswered ==
    /\ pc = "answered"
    /\ answer.exc = NoExc
    /\ answer.val.query_type = "custom"
    /\ answer.val.success
    /\ Len(answer.val.data.rows) >= 1

ResultRows == answer.val.data.rows

ResponseLines == Split(answer.val.response, "\n")

\* The rows the response has to list, and the line after which they come.
RowsListed == IF Len(ResultRows) <= 20 THEN Len(ResultRows) ELSE 10

RuleLine == IF Len(ResultRows) <= 20 THEN 4 ELSE 5

RowsNotice == "Returned " \o ToString(Len(ResultRows)) \o " rows. Showing first 10:"

(***************************************************************************)
(* C16: for a custom SQL result of n >= 1 rows the response lists all n    *)
(* rows when n <= 20, and when n > 20 exactly the first 10 rows, in result *)
(* order, after the notice "Returned n rows. Showing first 10:"; every     *)
(* rendered cell is the stringified value cut to at most 30 characters.    *)
(***************************************************************************)
C16_CustomTableRows ==
    CustomAnswered =>
        /\ Len(ResponseLines) = RuleLine + RowsListed
        /\ (ResponseLines[3] = RowsNotice) <=> (Len(ResultRows) > 20)
        /\ \A k \in 1..RowsListed :
              LET cells == Split(ResponseLines[RuleLine + k], " | ")
              IN  /\ Len(cells) = Len(ResultRows[k])
                  /\ \A j \in 1..Len(cells) :
                        /\ Len(cells[j]) <= 30
                        /\ cells[j] = Take(Str(ResultRows[k][j][2]), 30)

\* A result of more than 20 rows whose cells are longer than 30 characters.
C16_Witness ==
    /\ CustomAnswered
    /\ Len(ResultRows) > 20
    /\ \E k \in 1..10 : \E j \in 1..Len(ResultRows[k]) :
          Len(Str(ResultRows[k][j][2])) > 30

(***************************************************************************)
(* Vocabulary of the search claims.                                        *)
(***************************************************************************)
TheQuery == DictGet(TheParameters, "query", PyStr(""))

TheLimit == DictGet(TheParameters, "limit", PyInt(20))

\* A search that reached a store which opened and answered its statements,
\* with a search term that is a non-empty string and a limit that is a number.
SearchAnswered ==
    /\ pc = "answered"
    /\ answer.exc = NoExc
    /\ FunctionIs("search_topics")
    /\ TheParameters.t = "dict"
    /\ TheQuery.t = "str" /\ Truthy(TheQuery)
    /\ TheLimit.t = "int" /\ TheLimit.n >= 0
    /\ theEnv.main = "ok" /\ theEnv.stmt = "read"

\* The stored topic is dated within the optional date filter of the search.
WithinDates(tp) ==
    LET start_date == DictGet(TheParameters, "start_date", PyNone)
        end_date == DictGet(TheParameters, "end_date", PyNone)
    IN  /\ Truthy(start_date) => DayOf(store, tp) >= SqlDate(start_date).day
        /\ Truthy(end_date) => DayOf(store, tp) <= SqlDate(end_date).day

\* The stored topics whose normalized name holds the lower-cased search term
\* as a literal substring, within the date filter.
LiteralMatches ==
    {tp \in store.topics :
        /\ SearchLiteral(Lower(Chars[TheQuery.s]), Chars[tp.name])
        /\ WithinDates(tp)}

\* The entry of the search data is the stored topic with all its articles.
EntryIs(row, tp) ==
    /\ row.normalized_name = tp.name
    /\ row.summary_id = tp.summary_id
    /\ row.summary_text = tp.text
    /\ Len(row.articles) = Cardinality({a \in store.articles : a.topic_id = tp.id})
    /\ {<< row.articles[k].title, row.articles[k].link >> : k \in 1..Len(row.articles)}
          = {<< a.title, a.link >> : a \in {b \in store.articles : b.topic_id = tp.id}}

\* C17: a search for q returns exactly the stored topics whose normalized name
\* holds the lower-cased q as a literal substring, within the optional date
\* filter and up to the limit, each once and with all its articles and links.
C17_SearchIsLiteralSubstring ==
    SearchAnswered =>
        LET rows == answer.val.data.rows
            expected == LiteralMatches
        IN  /\ Len(rows) = IF Cardinality(expected) < TheLimit.n
                           THEN Cardinality(expected) ELSE TheLimit.n
            /\ \A i \in 1..Len(rows) : \E tp \in expected : EntryIs(rows[i], tp)
            /\ \A i, j \in 1..Len(rows) :
                  (rows[i].normalized_name = rows[j].normalized_name
                     /\ rows[i].summary_id = rows[j].summary_id) => i = j

\* Two calls whose search terms are equal up to letter case and whose other
\* arguments and conditions are the same.
SameButCase(a, b) ==
    /\ Lower(Chars[a.query.s]) = Lower(Chars[b.query.s])
    /\ [a EXCEPT !.query = PyNone] = [b EXCEPT !.query = PyNone]

\* C18: against an unchanged store, calls of topic_search whose queries differ
\* only in letter case return equal results, and a repeated identical call
\* returns the same result.
C18_SearchIgnoresCaseAndRepeats ==
    \A i, j \in 1..Len(calls) :
        /\ calls[i].args = calls[j].args => calls[i].result = calls[j].result
        /\ SameButCase(calls[i].args, calls[j].args) =>
              calls[i].result = calls[j].result

\* Reached: "OpenAI" and then "openai", asked under the same conditions, both
\* find the two stored topics named openai developments.
C18_Witness ==
    /\ Len(calls) = MaxSearches
    /\ calls[1].args.query = PyStr("OpenAI")
    /\ calls[2].args.query = PyStr("openai")
    /\ calls[1].args.open = "ok" /\ calls[2].args = [calls[1].args EXCEPT !.query = PyStr("openai")]
    /\ Len(calls[1].result) = 2
    /\ calls[2].result = calls[1].result

\* The exception the store or the storage engine raised during the call of
\* execute_safe_sql, if any.
StorageError ==
    IF theEnv.main # "ok" THEN get_db_connection(TRUE, theEnv.main).exc
    ELSE SqliteExecute("ro", theEnv.kind, store).exc

\* C19: an error raised while execute_safe_sql opens the store or runs a
\* statement the guardrail approved is returned as (False, error string)
\* carrying the engine's message, and the call never raises.
C19_StorageErrorsAreReturned ==
    /\ pc # "raised"
    /\ (pc = "executed" /\ validate_sql(sql).ok /\ StorageError # NoExc) =>
          /\ ~ret.ok
          /\ ret.rows = << >>
          /\ ret.reason \in {"SQL error: " \o StorageError.msg,
                             "Query execution error: " \o StorageError.msg}

\* Reached: an approved statement names a table the store does not have.
C19_Witness ==
    /\ pc = "executed"
    /\ validate_sql(sql).ok
    /\ theEnv.main = "ok" /\ theEnv.kind = "error"
    /\ ret = [ok |-> FALSE, reason |-> "SQL error: no such table", rows |-> << >>]

\* What one more invocation returns for the same response of the LLM against
\* the store as it is now, when the store behaves as it did but for the
\* iteration order of Python sets.
AskedAgain ==
    {classify_and_execute(theLlm, store, e) :
        e \in {x \in EnvsFor(theLlm) :
                 [x EXCEPT !.hashOrder = theEnv.hashOrder] = theEnv}}

\* C20: two invocations that receive the same classification against the same
\* store contents return the same response string and the same data, the
\* order of common_topics, new_in_period2 and dropped_from_period1 included.
C20_AnswerIsDeterministic ==
    (pc = "answered" /\ theLlm.kind = "returns" /\ answer.exc = NoExc) =>
        \A again \in AskedAgain :
            /\ again.exc = NoExc
            /\ again.val.response = answer.val.response
            /\ again.val.data = answer.val.data

(***************************************************************************)
(* Vocabulary of the limit claims.                                         *)
(***************************************************************************)
\* A search that returned its list of topics.
SearchListed ==
    /\ pc = "answered"
    /\ answer.exc = NoExc
    /\ answer.val.query_type = "search"
    /\ answer.val.success

\* The limit of the invocation as a number, when it is one: the value the
\* classification carries, or the handler's default when it carries none.
LimitOr(default) ==
    LET limit == DictGet(TheParameters, "limit", PyInt(default))
    IN  IF limit.t \in {"int", "bool"} THEN {limit.n} ELSE {}

\* C21: search_topics returns at most limit topics (at most 20 when the
\* classification carries no limit) and compare_periods at most limit topics
\* per period (at most 10 when it carries none).
C21_LimitBoundsTopics ==
    /\ SearchListed =>
          \A n \in LimitOr(20) : Len(answer.val.data.rows) <= n
    /\ ComparisonAnswered =>
          \A n \in LimitOr(10) :
              /\ Len(ComparisonOf.period1.topics) <= n
              /\ Len(ComparisonOf.period2.topics) <= n

\* C22: validate_sql returns the reason of the first check that fails, in the
\* order empty or whitespace-only, SELECT prefix, denylisted keyword,
\* forbidden pattern: an empty or whitespace-only text yields "Empty SQL
\* query", and a SELECT text that holds both a denylisted keyword and a
\* comment marker or a second statement yields the keyword reason.
C22_FirstFailingCheckWins ==
    pc = "validated" =>
        LET blank == \A i \in 1..Len(sql) : IsSpace(sql[i])
            keyword == WordsOf(sql) \cap DenylistWords # {}
            pattern == SemicolonThenWord(sql) \/ HasCommentMarker(sql)
        IN  IF blank THEN ret.reason = "Empty SQL query"
            ELSE IF ~IsSelectText(sql)
            THEN ret.reason = "Only SELECT queries are allowed"
            ELSE IF keyword
            THEN \E k \in 1..Len(FORBIDDEN_SQL_KEYWORDS) :
                    ret.reason = "Forbidden keyword: " \o FORBIDDEN_SQL_KEYWORDS[k]
            ELSE IF pattern THEN ret.reason = "Forbidden SQL pattern detected"
            ELSE ret.reason = "" /\ ret.ok

\* Reached: SELECT DROP-- holds a denylisted keyword and a comment marker and
\* is refused for the keyword.
C22_Witness ==
    /\ pc = "validated"
    /\ sql = Chars["SELECT "] \o Chars["DROP"] \o Chars["--"]
    /\ ret.reason = "Forbidden keyword: DROP"

(***************************************************************************)
(* Vocabulary of the step-order claim.                                     *)
(***************************************************************************)
\* The place of a step in the linear order of an invocation.
StageOf(step) ==
    CASE step = "get_date_range" -> 1
      [] step = "call_llm" -> 2
      [] step = "_parse_classification" -> 3
      [] step = "_execute_function" -> 4
      [] step \in {"_execute_trends", "_execute_comparison", "_execute_search",
                   "_execute_custom_sql"} -> 5
      [] step \in {"topic_counts_by_period", "top_topics_comparison", "topic_search",
                   "execute_safe_sql"} -> 6
      [] step = "validate_sql" -> 7
      [] step = "get_db_connection" -> 8
      [] step = "conn.execute" -> 9
      [] step \in {"_format_trends_response", "_format_comparison_response",
                   "_format_search_response", "_format_custom_response"} -> 10

\* C23: an invocation runs its steps in one linear order (date-context read,
\* LLM call, parse, route, handler, and on the execute_sql path validation
\* before execution, then formatting), repeats none, calls the LLM
\* collaborator exactly once and ends in one outcome, success or failure.
C23_LinearNoRetry ==
    pc = "answered" =>
        /\ Len(trace) >= 2 /\ trace[1] = "get_date_range" /\ trace[2] = "call_llm"
        /\ \A i, j \in 1..Len(trace) : i < j => StageOf(trace[i]) < StageOf(trace[j])
        /\ Cardinality({i \in 1..Len(trace) : trace[i] = "call_llm"}) = 1
        /\ answer.exc = NoExc
        /\ answer.val.success \in BOOLEAN
        /\ answer.val.success => trace[Len(trace)] \notin {"call_llm", "_parse_classification"}

\* Reached: a custom statement is validated, run and its rows formatted.
C23_Witness ==
    /\ pc = "answered"
    /\ trace = << "get_date_range", "call_llm", "_parse_classification",
                  "_execute_function", "_execute_custom_sql", "execute_safe_sql",
                  "validate_sql", "get_db_connection", "conn.execute",
                  "_format_custom_response" >>
    /\ answer.val.success

(***************************************************************************)
(* Vocabulary of the parser claim.                                         *)
(***************************************************************************)
\* The response is a classification object (a JSON object with a function)
\* inside code fences or with prose before or after it.
WrappedClassification ==
    /\ theLlm.kind = "returns"
    /\ theLlm.text.body.json
    /\ theLlm.text.body.val.t = "dict"
    /\ DictGet(theLlm.text.body.val, "function", Absent) # Absent
    /\ theLlm.text.fenced \/ theLlm.text.pre \/ theLlm.text.post

\* C24: from a classification object wrapped in code fences or surrounded by
\* prose the parser returns that whole object, also when its parameters are a
\* nested object; when no attempt succeeds the invocation ends as a parse
\* failure and nothing is raised.
C24_WrappedObjectParsedWhole ==
    pc = "answered" =>
        /\ WrappedClassification => TheClassification = theLlm.text.body.val
        /\ (theLlm.kind = "returns" /\ TheClassification = PyNone) =>
              /\ answer.exc = NoExc
              /\ answer.val.query_type = "unknown"
              /\ trace[Len(trace)] = "_parse_classification"

\* C25: every connection opened by execute_safe_sql or by a prebuilt
\* aggregation read is closed before that call returns, on the success path
\* and on every error path, an error raised right after the connection is
\* opened included: the invocation leaves no more connections open than it
\* found (the date-context read and the usage log having closed theirs).
C25_ConnectionsClosed ==
    [][(pc = "idle" /\ pc' = "answered" /\ theEnv'.ctx = "ok" /\ theEnv'.log = "ok")
          => openConns' = openConns]_vars

(***************************************************************************)
(* Vocabulary of the trends claims.                                        *)
(***************************************************************************)
\* A trends invocation that returned rows.
TrendsAnswered ==
    /\ pc = "answered"
    /\ answer.exc = NoExc
    /\ answer.val.query_type = "trends"
    /\ answer.val.success
    /\ Len(answer.val.data.rows) >= 1

TrendRows == answer.val.data.rows

\* The stored topics of that name whose summary is dated within
\* [start_date, end_date] of the invocation.
StoriesInRange(name) == {tp \in store.topics : tp.name = name /\ WithinDates(tp)}

\* C26: every row and every example article returned for get_trends comes
\* from a summary whose generated_at date lies within [start_date, end_date].
C26_TrendsWithinRange ==
    TrendsAnswered =>
        \A i \in 1..Len(TrendRows) :
            /\ StoriesInRange(TrendRows[i].topic) # {}
            /\ \A k \in 1..Len(TrendRows[i].articles) :
                  \E tp \in StoriesInRange(TrendRows[i].topic) :
                      \E a \in store.articles :
                          /\ a.topic_id = tp.id
                          /\ a.title = TrendRows[i].articles[k].title
                          /\ a.link = TrendRows[i].articles[k].link

\* C27: for a successful execute_safe_sql call each returned row is a mapping
\* with exactly one entry per cursor column, in cursor column order, that maps
\* every column name to the row's value in that column.
C27_RowsMapEveryColumn ==
    (pc = "executed" /\ ret.ok) =>
        LET columns == theEnv.cursor.columns
            fetched == theEnv.cursor.rows
        IN  /\ Len(ret.rows) = Len(fetched)
            /\ \A i \in 1..Len(ret.rows) :
                  /\ Len(ret.rows[i]) = Len(columns)
                  /\ \A j \in 1..Len(columns) :
                        ret.rows[i][j] = << columns[j], fetched[i][j] >>

(***************************************************************************)
(* Vocabulary of the trends rendering claim.                               *)
(***************************************************************************)
\* The calls of the trends formatter.
FormatCalls == {i \in 1..Len(calls) : calls[i].op = "_format_trends_response"}

\* The rows of a data list under one period key.
RowsOfKey(data, k) == {i \in 1..Len(data) : data[i].period = k}

\* How many rows of its period go before row i: those with more stories, and
\* those with as many that stand earlier in the input.
Ahead(data, i) ==
    Cardinality({j \in RowsOfKey(data, data[i].period) :
                    \/ data[j].story_count > data[i].story_count
                    \/ data[j].story_count = data[i].story_count /\ j < i})

\* The lines of one rendered row: the topic line, then the title and the link
\* of its first two articles.
RowLines(item) ==
    << "- " \o item.topic \o ": " \o ToString(item.story_count) \o " stories, "
         \o ToString(item.article_count) \o " articles" >>
    \o Flatten([j \in 1..(IF Len(item.articles) < 2 THEN Len(item.articles) ELSE 2) |->
                   << "  - " \o item.articles[j].title, "    " \o item.articles[j].link >>])

\* The lines of one period: a blank line, the key in bold, then the rows that
\* have fewer than five rows ahead of them, by the number ahead.
PeriodLines(data, k) ==
    LET shown == {i \in RowsOfKey(data, k) : Ahead(data, i) < 5}
    IN  << "", "**" \o k \o "**" >>
        \o Flatten([r \in 1..Cardinality(shown) |->
                       RowLines(data[CHOOSE i \in shown : Ahead(data, i) = r - 1])])

\* The period keys of a data list, earliest day first.
KeysAscending(data) == SelectSeq(DateText, LAMBDA k : RowsOfKey(data, k) # {})

\* C28: the trends response groups the rows by period key, lists the periods in
\* ascending key order, and within each period renders only the 5 rows with
\* the highest story_count in descending order (ties keep their input order),
\* each as "topic: N stories, M articles" followed by at most 2 example
\* article titles with links.
C28_TrendsRendering ==
    \A c \in FormatCalls :
        LET data == calls[c].data
            keys == KeysAscending(data)
        IN  calls[c].result
               = JoinWith("\n",
                    << "Topic trends from 2024-01-01 to 2024-01-02 (by day):", "" >>
                    \o Flatten([n \in 1..Len(keys) |-> PeriodLines(data, keys[n])]))

\* A call whose rows come later day first, with six rows of one day, equal
\* story counts among them, and a rendered row that has three articles.
C28_Witness ==
    \E c \in FormatCalls :
        LET data == calls[c].data
        IN  /\ Len(data) = 7
            /\ data[1].period = "2024-01-02" /\ data[2].period = "2024-01-01"
            /\ Cardinality(RowsOfKey(data, "2024-01-02")) = 6
            /\ data[1].story_count = 1 /\ data[3].story_count = 2 /\ data[4].story_count = 2
            /\ data[5].story_count = 1
            /\ Len(data[1].articles) = 3

(***************************************************************************)
(* Vocabulary of the dropped and new topics claim.                         *)
(***************************************************************************)
\* The comparisons made, and the names a comparison lists under a key.
ComparisonsMade == {i \in 1..Len(calls) : calls[i].op = "top_topics_comparison"}

ListedBy(c, key) ==
    LET names == GetOr(calls[c].result.comparison, key, << >>)
    IN  {names[i] : i \in 1..Len(names)}

\* The stored topics of a name whose summary is dated from `start` to `end`.
StoriesBetween(st, name, start, end) ==
    {tp \in st.topics :
        /\ tp.name = name
        /\ \E d \in 1..Len(DateText) :
              /\ DayOf(st, tp) = d
              /\ \E a, b \in 1..Len(DateText) :
                    DateText[a] = start.s /\ DateText[b] = end.s /\ a <= d /\ d <= b}

\* C29: for every limit value, each topic listed in dropped_from_period1 has no
\* story in period 2's date range, and each topic listed in new_in_period2 has
\* no story in period 1's date range.
C29_DroppedAndNewAreAbsent ==
    \A c \in ComparisonsMade :
        LET a == calls[c].args
        IN  /\ \A name \in ListedBy(c, "dropped_from_period1") :
                  StoriesBetween(a.st, name, a.p2_start, a.p2_end) = {}
            /\ \A name \in ListedBy(c, "new_in_period2") :
                  StoriesBetween(a.st, name, a.p1_start, a.p1_end) = {}

(***************************************************************************)
(* Vocabulary of the failed-read claim.                                    *)
(***************************************************************************)
\* The handler of a trends, comparison or search invocation called its store
\* helper, and the helper's read failed: the store could not be opened or the
\* storage engine refused the statement.
StoreReadFailed ==
    /\ pc = "answered"
    /\ \E i \in 1..Len(trace) :
          trace[i] \in {"topic_counts_by_period", "top_topics_comparison", "topic_search"}
    /\ theEnv.main # "ok" \/ theEnv.stmt = "error"
    /\ FunctionIs("get_trends") =>
          LET period == DictGet(TheParameters, "period", PyStr("week"))
          IN  period.t = "str" /\ period.s \in {"day", "week", "month"}

\* C30: a get_trends, compare_periods or search_topics result has success=True
\* only if the underlying store read completed without error; when the store
\* read fails, classify_and_execute returns success=False.
C30_FailedReadIsFailure ==
    StoreReadFailed => answer.exc = NoExc /\ ~answer.val.success

====
